---- MODULE Spec2Model ----
(***************************************************************************)
(* Drop Domain Analyzer: the task store, the background worker that        *)
(* analyses a batch of domains one at a time, the status / report /        *)
(* download / stream endpoints, and the report store.                      *)
(*                                                                         *)
(* All endpoint handlers and the worker are coroutines of one asyncio      *)
(* event loop: code between two awaits runs without interleaving.  The     *)
(* worker's position (pc) says which statement it executes next; the       *)
(* positions at which it is suspended in an await are YieldPcs, and a      *)
(* coroutine may only be resumed while no worker is between two awaits.    *)
(***************************************************************************)
EXTENDS Integers, Sequences, FiniteSets, TLC

\* ---------------------------------------------------------------- bounds
MaxTasks == 2          \* tasks submitted in one behaviour
MaxDomains == 2        \* domains submitted over all tasks of one behaviour
MaxStreams == 1        \* live-stream subscriptions in one behaviour
MaxReports == 1        \* reports created in one behaviour
MaxCopies == 2         \* reports created in one behaviour of ReportSpec

DomainNames == {"a.com", "b.com"}

TaskIds == 1..MaxTasks
UnknownId == 0                      \* an id no uuid4() call ever returned
StreamIds == 1..MaxStreams

\* Optional[...] = None
Null == -1

\* AnalysisTaskStatus
PENDING == "pending"
PROCESSING == "processing"
COMPLETED == "completed"
FAILED == "failed"
AnalysisTaskStatus == {PENDING, PROCESSING, COMPLETED, FAILED}

RECURSIVE SumRange(_, _, _)
\* s[lo] + ... + s[hi]
SumRange(s, lo, hi) ==
    IF lo > hi THEN 0
    ELSE IF lo = hi THEN s[lo]
    ELSE LET mid == (lo + hi) \div 2
         IN  SumRange(s, lo, mid) + SumRange(s, mid + 1, hi)

SumSeq(s) == SumRange(s, 1, Len(s))

RECURSIVE SeqsUpTo(_, _)
\* every sequence over S of length at most n
SeqsUpTo(S, n) ==
    IF n = 0 THEN {<<>>}
    ELSE LET shorter == SeqsUpTo(S, n - 1)
         IN  shorter \cup {Append(s, x) : s \in {q \in shorter : Len(q) = n - 1}, x \in S}

\* ------------------------------------------------- WaybackService (analyzer)
\* A snapshot timestamp "%Y%m%d%H%M%S" is modelled by <<year, month, day, hour>>;
\* a snapshot is [timestamp, digest], digest = Null when the record has none.
NullTs == <<0, 0, 0, 0>>

IsLeap(y) == (y % 4 = 0) /\ ((y % 100 # 0) \/ (y % 400 = 0))

DaysInMonth(y, m) ==
    IF m = 2 THEN (IF IsLeap(y) THEN 29 ELSE 28)
    ELSE IF m \in {4, 6, 9, 11} THEN 30 ELSE 31

\* datetime.strptime(ts, "%Y%m%d%H%M%S") succeeds
WellFormed(ts) ==
    /\ ts[1] \in 1..9999
    /\ ts[2] \in 1..12
    /\ ts[3] \in 1..DaysInMonth(ts[1], ts[2])
    /\ ts[4] \in 0..23

RECURSIVE DaysBeforeMonth(_, _)
DaysBeforeMonth(y, m) ==
    IF m = 1 THEN 0 ELSE DaysBeforeMonth(y, m - 1) + DaysInMonth(y, m - 1)

RECURSIVE DaysBeforeYear(_)
\* days from 2000-01-01 to the first day of year y (y >= 2000)
DaysBeforeYear(y) ==
    IF y <= 2000 THEN 0
    ELSE DaysBeforeYear(y - 1) + (IF IsLeap(y - 1) THEN 366 ELSE 365)

\* the datetime of a well-formed timestamp, in hours since 2000-01-01T00
Strptime(ts) ==
    (DaysBeforeYear(ts[1]) + DaysBeforeMonth(ts[1], ts[2]) + (ts[3] - 1)) * 24 + ts[4]

\* (b - a).days for datetimes a <= b
DeltaDays(a, b) == (Strptime(b) - Strptime(a)) \div 24

\* a list whose sort was forgotten
SortDates_Unsorted(s) == s

\* snapshot_dates.sort(): the date that has p - 1 dates before it (earlier
\* ones, and equal ones that came first) is the p-th of the sorted list
SortDates(s) ==
    LET n == Len(s)
        key == <<>> \o [k \in 1..n |-> Strptime(s[k])]
        rank == <<>> \o [k \in 1..n |->
                    1 + Cardinality({j \in 1..n : \/ key[j] < key[k]
                                                  \/ key[j] = key[k] /\ j < k})]
    IN  <<>> \o [p \in 1..n |-> s[CHOOSE k \in 1..n : rank[k] = p]]

\* max(s) of a list that is not empty
MaxSeq(s) == CHOOSE x \in {s[k] : k \in 1..Len(s)} : \A k \in 1..Len(s) : x >= s[k]

\* round(total / n, 2), in hundredths: Python rounds a tie to the even neighbour
RoundTo2(total, n) ==
    LET q == (total * 100) \div n
        r == (total * 100) % n
    IN  IF 2 * r < n THEN q
        ELSE IF 2 * r > n THEN q + 1
        ELSE IF q % 2 = 0 THEN q ELSE q + 1

\* what the archive answers for one domain: an exception of the CDX call
\* (error # ""), or the list of snapshots in the order the archive gives them
CdxAnswer(err, snaps) == [error |-> err, snapshots |-> snaps]

NoCdxResult ==
    [kind |-> "error", error |-> "", total_snapshots |-> 0,
     oldest_snapshot |-> NullTs, newest_snapshot |-> NullTs,
     avg_interval_days |-> <<0, 0>>, max_gap_days |-> Null, years_covered |-> 0,
     snapshots_per_year |-> <<>>, unique_versions |-> 0, timemap_count |-> 0]

\* a check whose gap and average default to 0 when there is no interval
blocking_cdx_api_check_ZeroDefaults(cdx) ==
    IF cdx.error # "" THEN [NoCdxResult EXCEPT !.kind = "error", !.error = cdx.error]
    ELSE IF cdx.snapshots = <<>> THEN [NoCdxResult EXCEPT !.kind = "message"]
    ELSE
      LET snapshots == cdx.snapshots
          parsed == SelectSeq(snapshots, LAMBDA sn : WellFormed(sn.timestamp))
          snapshot_dates == SortDates([k \in 1..Len(parsed) |-> parsed[k].timestamp])
          unique_digests == {parsed[k].digest : k \in {j \in 1..Len(parsed) : parsed[j].digest # Null}}
          intervals == [k \in 1..(Len(snapshot_dates) - 1) |->
                            DeltaDays(snapshot_dates[k], snapshot_dates[k + 1])]
          years == {snapshot_dates[k][1] : k \in 1..Len(snapshot_dates)}
      IN  [kind |-> "result", error |-> "",
           total_snapshots |-> Len(snapshots),
           oldest_snapshot |-> snapshots[1].timestamp,
           newest_snapshot |-> snapshots[Len(snapshots)].timestamp,
           \* sum(intervals) / len(intervals), kept as the pair <<sum, len>> the
           \* rounding needs; <<0, 0>> is None
           avg_interval_days |-> IF intervals # <<>>
                                 THEN <<SumSeq(intervals), Len(intervals)>> ELSE <<0, 1>>,
           max_gap_days |-> IF intervals # <<>> THEN MaxSeq(intervals) ELSE 0,
           years_covered |-> Cardinality(years),
           snapshots_per_year |->
               [y \in years |-> Cardinality({k \in 1..Len(snapshot_dates) : snapshot_dates[k][1] = y})],
           unique_versions |-> Cardinality(unique_digests),
           timemap_count |-> Len(snapshots)]

\* blocking_cdx_api_check: the raw metrics of the snapshot list
blocking_cdx_api_check(cdx) ==
    IF cdx.error # "" THEN [NoCdxResult EXCEPT !.kind = "error", !.error = cdx.error]
    ELSE IF cdx.snapshots = <<>> THEN [NoCdxResult EXCEPT !.kind = "message"]
    ELSE
      LET snapshots == cdx.snapshots
          parsed == SelectSeq(snapshots, LAMBDA sn : WellFormed(sn.timestamp))
          snapshot_dates == SortDates([k \in 1..Len(parsed) |-> parsed[k].timestamp])
          unique_digests == {parsed[k].digest : k \in {j \in 1..Len(parsed) : parsed[j].digest # Null}}
          intervals == [k \in 1..(Len(snapshot_dates) - 1) |->
                            DeltaDays(snapshot_dates[k], snapshot_dates[k + 1])]
          years == {snapshot_dates[k][1] : k \in 1..Len(snapshot_dates)}
      IN  [kind |-> "result", error |-> "",
           total_snapshots |-> Len(snapshots),
           oldest_snapshot |-> snapshots[1].timestamp,
           newest_snapshot |-> snapshots[Len(snapshots)].timestamp,
           \* sum(intervals) / len(intervals), kept as the pair <<sum, len>> the
           \* rounding needs; <<0, 0>> is None
           avg_interval_days |-> IF intervals # <<>>
                                 THEN <<SumSeq(intervals), Len(intervals)>> ELSE <<0, 0>>,
           max_gap_days |-> IF intervals # <<>> THEN MaxSeq(intervals) ELSE Null,
           years_covered |-> Cardinality(years),
           snapshots_per_year |->
               [y \in years |-> Cardinality({k \in 1..Len(snapshot_dates) : snapshot_dates[k][1] = y})],
           unique_versions |-> Cardinality(unique_digests),
           timemap_count |-> Len(snapshots)]

\* first_snapshot / last_snapshot: the ISO form of a timestamp that parses, the
\* raw timestamp otherwise (iso tells which)
IsoOrRaw(ts) == [iso |-> WellFormed(ts), ts |-> ts]
NullDate == [iso |-> FALSE, ts |-> NullTs]

EmptySummary ==
    [error |-> "", has_snapshot |-> FALSE, total_snapshots |-> 0, timemap_count |-> 0,
     first_snapshot |-> NullDate, last_snapshot |-> NullDate,
     avg_interval_days |-> Null, max_gap_days |-> Null, years_covered |-> Null,
     snapshots_per_year |-> <<>>, unique_versions |-> Null,
     is_good |-> FALSE, recommended |-> FALSE]

ErrNotInstalled == "waybackpy library is not installed"
\* loop.run_in_executor raises instead of running blocking_cdx_api_check (the
\* executor has been shut down): the except of line 205 takes it
ErrExecutor == "cannot schedule new futures after shutdown"
ErrUnexpected == "An unexpected error occurred: cannot schedule new futures after shutdown"

\* a summary that recommends a domain whose average interval is exactly 30 days
get_domain_history_summary_AvgAtMost30(waybackpy_available, cdx) ==
    IF ~waybackpy_available THEN [EmptySummary EXCEPT !.error = ErrNotInstalled]
    ELSE IF cdx.error = ErrExecutor THEN [EmptySummary EXCEPT !.error = ErrUnexpected]
    ELSE
      LET cdx_result == blocking_cdx_api_check(cdx)
      IN  IF cdx_result.kind = "error" THEN [EmptySummary EXCEPT !.error = cdx_result.error]
          ELSE IF cdx_result.kind = "message" THEN [EmptySummary EXCEPT !.has_snapshot = TRUE]
          ELSE
            LET avg == IF cdx_result.avg_interval_days[2] = 0 THEN Null
                       ELSE RoundTo2(cdx_result.avg_interval_days[1],
                                     cdx_result.avg_interval_days[2])
                total_snapshots == cdx_result.total_snapshots
                max_gap_days == cdx_result.max_gap_days
            IN  [error |-> "", has_snapshot |-> TRUE,
                 total_snapshots |-> total_snapshots,
                 timemap_count |-> cdx_result.timemap_count,
                 first_snapshot |-> IsoOrRaw(cdx_result.oldest_snapshot),
                 last_snapshot |-> IsoOrRaw(cdx_result.newest_snapshot),
                 avg_interval_days |-> avg,
                 max_gap_days |-> max_gap_days,
                 years_covered |-> cdx_result.years_covered,
                 snapshots_per_year |-> cdx_result.snapshots_per_year,
                 unique_versions |-> cdx_result.unique_versions,
                 is_good |-> (total_snapshots >= 1)
                             /\ (max_gap_days # Null /\ max_gap_days < 365),
                 recommended |-> (total_snapshots >= 200)
                                 /\ (avg # Null /\ avg <= 30 * 100)]

\* WaybackService.get_domain_history_summary.  avg_interval_days is in hundredths
\* of a day (the value is rounded to 2 decimals).
get_domain_history_summary(waybackpy_available, cdx) ==
    IF ~waybackpy_available THEN [EmptySummary EXCEPT !.error = ErrNotInstalled]
    ELSE IF cdx.error = ErrExecutor THEN [EmptySummary EXCEPT !.error = ErrUnexpected]
    ELSE
      LET cdx_result == blocking_cdx_api_check(cdx)
      IN  IF cdx_result.kind = "error" THEN [EmptySummary EXCEPT !.error = cdx_result.error]
          ELSE IF cdx_result.kind = "message" THEN [EmptySummary EXCEPT !.has_snapshot = TRUE]
          ELSE
            LET avg == IF cdx_result.avg_interval_days[2] = 0 THEN Null
                       ELSE RoundTo2(cdx_result.avg_interval_days[1],
                                     cdx_result.avg_interval_days[2])
                total_snapshots == cdx_result.total_snapshots
                max_gap_days == cdx_result.max_gap_days
            IN  [error |-> "", has_snapshot |-> TRUE,
                 total_snapshots |-> total_snapshots,
                 timemap_count |-> cdx_result.timemap_count,
                 first_snapshot |-> IsoOrRaw(cdx_result.oldest_snapshot),
                 last_snapshot |-> IsoOrRaw(cdx_result.newest_snapshot),
                 avg_interval_days |-> avg,
                 max_gap_days |-> max_gap_days,
                 years_covered |-> cdx_result.years_covered,
                 snapshots_per_year |-> cdx_result.snapshots_per_year,
                 unique_versions |-> cdx_result.unique_versions,
                 is_good |-> (total_snapshots >= 1)
                             /\ (max_gap_days # Null /\ max_gap_days < 365),
                 recommended |-> (total_snapshots >= 200)
                                 /\ (avg # Null /\ avg < 30 * 100)]

\* ------------------------------------------------------------------ state
VARIABLES
    fake_tasks_db,        \* analysis.py: task_id -> task_info dict
    fake_reports_db,      \* reports.py: report id -> dumped Report
    reports_created,      \* how many Report ids uuid4() has handed out
    worker,               \* task_id -> the locals of run_domain_analysis_background
    streams,              \* stream id -> the locals of sse_task_status_generator
    waybackpy_installed,  \* whether "import waybackpy" succeeds in this process
    openrouter_api_key    \* whether an OpenRouter API key is configured

vars == <<fake_tasks_db, fake_reports_db, reports_created, worker, streams,
          waybackpy_installed, openrouter_api_key>>

\* the human-readable message of a task, by its template and its arguments
Msg(kind) == [kind |-> kind, i |-> 0, n |-> 0, name |-> ""]
MsgQueued == Msg("Task received and queued for processing.")
MsgStarted == Msg("Task processing has started.")
MsgCompleted == Msg("Task completed successfully.")
MsgProgress(i, n, name) == [kind |-> "Processing domain i/n: name", i |-> i, n |-> n, name |-> name]

\* datetime.utcnow() read by the worker of a task whose last timestamp is ts.
\* Timestamps are counted per task: between two reads made for one task lies
\* at least a file read or an awaited call, and the clock has advanced.
UtcNowAfter(ts) == ts + 1

\* Optional[bool] of a dumped result: 1, 0 or Null
OptBool(b) == IF b THEN 1 ELSE 0

ErrNoApiKey == "OpenRouter API key not configured. Skipping thematic analysis."
ErrLlmTimeout == "OpenRouter request timed out."
ErrFailedToProcess == "Failed to process"

\* what the LLM call gives: a parsed analysis ("") or one of its error results
LlmAnswers == {"", ErrLlmTimeout}

\* process_single_domain, once both awaited calls have returned: the dumped
\* DomainAnalysisResult
process_single_domain(domain_name, wayback_history, thematic_error) ==
    [domain_name |-> domain_name,
     wayback_history_summary |-> wayback_history,
     thematic_analysis_result |-> [error |-> thematic_error],
     has_snapshot |-> OptBool(wayback_history.has_snapshot),
     total_snapshots |-> wayback_history.total_snapshots,
     timemap_count |-> wayback_history.timemap_count,
     first_snapshot |-> wayback_history.first_snapshot,
     last_snapshot |-> wayback_history.last_snapshot,
     avg_interval_days |-> wayback_history.avg_interval_days,
     max_gap_days |-> wayback_history.max_gap_days,
     years_covered |-> wayback_history.years_covered,
     snapshots_per_year |-> wayback_history.snapshots_per_year,
     unique_versions |-> wayback_history.unique_versions,
     is_good |-> OptBool(wayback_history.is_good),
     recommended |-> OptBool(wayback_history.recommended)]

\* the result recorded when process_single_domain raised: only the name and the
\* two error markers are set, every metric keeps its default None
FailedResult(domain_name) ==
    [domain_name |-> domain_name,
     wayback_history_summary |-> [EmptySummary EXCEPT !.error = ErrFailedToProcess],
     thematic_analysis_result |-> [error |-> ErrFailedToProcess],
     has_snapshot |-> Null, total_snapshots |-> Null, timemap_count |-> Null,
     first_snapshot |-> NullDate, last_snapshot |-> NullDate,
     avg_interval_days |-> Null, max_gap_days |-> Null, years_covered |-> Null,
     snapshots_per_year |-> <<>>, unique_versions |-> Null,
     is_good |-> Null, recommended |-> Null]

\* ------------------------------------------------- what the archive answers
Snap(y, m, d, h, digest) == [timestamp |-> <<y, m, d, h>>, digest |-> digest]

\* six captures over three calendar years, at most 78 days apart
LongLivedSnapshots ==
    << Snap(2019, 12, 15, 0, 1), Snap(2020, 3, 1, 0, 1), Snap(2020, 5, 15, 0, 2),
       Snap(2020, 8, 1, 0, 2), Snap(2020, 10, 15, 0, 3), Snap(2021, 1, 1, 0, 3) >>

ErrCdx == "Connection to web.archive.org failed"

\* the archive's answers the worker is run against
CdxAnswers ==
    { CdxAnswer(ErrCdx, <<>>), CdxAnswer("", <<>>), CdxAnswer("", LongLivedSnapshots) }

\* --------------------------------------------------------- the event loop
\* positions at which a worker is suspended in an await (or not running)
YieldPcs == {"queued", "sleep", "cdx", "llm", "done", "aborted"}

\* no worker is between two awaits: the loop can resume another coroutine
LoopFree == \A t \in DOMAIN worker : worker[t].pc \in YieldPcs

Init ==
    /\ fake_tasks_db = <<>>
    /\ fake_reports_db = <<>>
    /\ reports_created = 0
    /\ worker = <<>>
    /\ streams = <<>>
    /\ waybackpy_installed \in BOOLEAN
    /\ openrouter_api_key \in BOOLEAN

\* ------------------------------------------------------ create_analysis_task
\* the response model AnalysisTaskResponse / AnalysisFullReportResponse, or the
\* HTTPException raised (detail_status: the status its detail quotes)
Response(code, task, results) ==
    [code |-> code, task_id |-> task.task_id, status |-> task.status,
     message |-> task.message, created_at |-> task.created_at,
     updated_at |-> task.updated_at, results |-> results]

NoTask ==
    [task_id |-> UnknownId, status |-> "", message |-> Msg(""), created_at |-> Null,
     updated_at |-> Null, domains_submitted |-> <<>>, results |-> <<>>]

HTTPException(code, task) == Response(code, task, <<>>)

DomainsSubmitted == SumSeq([t \in 1..Cardinality(DOMAIN fake_tasks_db) |->
                                Len(fake_tasks_db[t].domains_submitted)])

\* uuid4(): an id no task has
NewTaskId == Cardinality(DOMAIN fake_tasks_db) + 1

\* a task stored as already started, as the lines commented out at 150-152 would
TaskInfo_Started(task_id, domains) ==
    [task_id |-> task_id, status |-> PROCESSING, message |-> MsgStarted,
     created_at |-> 0, updated_at |-> 0,
     domains_submitted |-> domains, results |-> <<>>]

\* lines 134-145: the task_info dict of a new task
TaskInfo(task_id, domains) ==
    [task_id |-> task_id, status |-> PENDING, message |-> MsgQueued,
     created_at |-> 0, updated_at |-> 0,
     domains_submitted |-> domains, results |-> <<>>]

\* lines 154-160: the response of POST /tasks/, read back from the store
CreateResponse(db, task_id) ==
    [code |-> 202, task_id |-> task_id, status |-> db[task_id].status,
     message |-> db[task_id].message, created_at |-> db[task_id].created_at,
     updated_at |-> db[task_id].updated_at, results |-> <<>>]

\* six captures exactly 90 days apart, over three calendar years
Every90Snapshots ==
    << Snap(2019, 12, 1, 0, 1), Snap(2020, 2, 29, 0, 1), Snap(2020, 5, 29, 0, 2),
       Snap(2020, 8, 27, 0, 2), Snap(2020, 11, 25, 0, 3), Snap(2021, 2, 23, 0, 3) >>

\* six captures over three calendar years, 73.8 days apart on average, whose
\* longest gap is exactly 180 days
Gap180Snapshots ==
    << Snap(2019, 12, 30, 0, 1), Snap(2019, 12, 31, 0, 1), Snap(2020, 6, 28, 0, 2),
       Snap(2020, 6, 29, 0, 2), Snap(2020, 12, 20, 0, 3), Snap(2021, 1, 2, 0, 3) >>

\* one capture, and two captures of the same day
SingleSnapshot == << Snap(2020, 3, 1, 0, 1) >>
SameDaySnapshots == << Snap(2020, 3, 1, 0, 1), Snap(2020, 3, 1, 12, 2) >>

\* the archive's answers the filters are run against: metrics inside, on and
\* outside the thresholds
FilterAnswers ==
    CdxAnswers \cup
    { CdxAnswer("", Every90Snapshots), CdxAnswer("", Gap180Snapshots),
      CdxAnswer("", SingleSnapshot), CdxAnswer("", SameDaySnapshots) }

\* the date of the day that comes days days after 2000-01-01, at 00:00
DateOfDay(days) ==
    LET y == CHOOSE year \in 2000..2040 :
                 DaysBeforeYear(year) <= days /\ days < DaysBeforeYear(year + 1)
        rest == days - DaysBeforeYear(y)
        m == CHOOSE month \in 1..12 :
                 /\ DaysBeforeMonth(y, month) <= rest
                 /\ rest < DaysBeforeMonth(y, month) + DaysInMonth(y, month)
    IN  <<y, m, rest - DaysBeforeMonth(y, m) + 1, 0>>

\* count captures, one every step days from 2001-01-01 on, each with its own
\* digest
Captures(step, count) ==
    <<>> \o [k \in 1..count |->
                [timestamp |-> DateOfDay(366 + step * (k - 1)), digest |-> k]]

\* the captures of 2020-01-01, 2020-01-11 and 2020-04-10, as the archive may
\* list them: oldest first, newest first, or in no order
ExampleSnapshots ==
    << Snap(2020, 1, 1, 0, 1), Snap(2020, 1, 11, 0, 2), Snap(2020, 4, 10, 0, 2) >>
ExampleNewestFirst ==
    << Snap(2020, 4, 10, 0, 2), Snap(2020, 1, 11, 0, 2), Snap(2020, 1, 1, 0, 1) >>
ExampleUnordered ==
    << Snap(2020, 1, 11, 0, 2), Snap(2020, 4, 10, 0, 2), Snap(2020, 1, 1, 0, 1) >>

\* records whose timestamp strptime rejects (month 13), alone and beside
\* well-formed ones
MalformedSnapshots == << Snap(2020, 13, 1, 0, 1), Snap(2021, 13, 1, 0, 2) >>
HalfMalformedSnapshots == << Snap(2020, 13, 1, 0, 1), Snap(2020, 3, 1, 0, 2) >>
MostlyWellFormedSnapshots ==
    << Snap(2019, 6, 1, 0, 1), Snap(2020, 13, 1, 0, 2), Snap(2020, 3, 1, 0, 3) >>

\* the same capture listed twice, and captures whose records have no digest
DuplicateSnapshots == << Snap(2020, 3, 1, 0, 1), Snap(2020, 3, 1, 0, 1) >>
NoDigestSnapshots == << Snap(2020, 1, 1, 0, Null), Snap(2020, 2, 1, 0, Null) >>
\* two captures more than a year apart
YearApartSnapshots == << Snap(2019, 1, 1, 0, 1), Snap(2020, 6, 1, 0, 2) >>

\* the archive's answers the analyzer is run against
AnalyzerAnswers ==
    { CdxAnswer(ErrCdx, <<>>), CdxAnswer(ErrExecutor, <<>>), CdxAnswer("", <<>>),
      CdxAnswer("", SingleSnapshot),
      CdxAnswer("", ExampleSnapshots), CdxAnswer("", ExampleNewestFirst),
      CdxAnswer("", ExampleUnordered), CdxAnswer("", MalformedSnapshots),
      CdxAnswer("", HalfMalformedSnapshots), CdxAnswer("", MostlyWellFormedSnapshots),
      CdxAnswer("", DuplicateSnapshots), CdxAnswer("", NoDigestSnapshots), CdxAnswer("", YearApartSnapshots),
      CdxAnswer("", SameDaySnapshots),
      CdxAnswer("", Captures(20, 250)),
      CdxAnswer("", Captures(40, 250)),
      CdxAnswer("", Captures(20, 199)),
      CdxAnswer("", Captures(30, 200)) }

\* every answer of the archive a specification draws from
ArchiveAnswers == CdxAnswers \cup FilterAnswers \cup AnalyzerAnswers

\* no call of blocking_cdx_api_check is running
NoCall == CdxAnswer("", <<>>)

\* the locals of a worker that add_task has scheduled and that has not run yet
QueuedWorker(domains) ==
    [pc |-> "queued", domains_to_analyze |-> domains, i |-> 0,
     results |-> <<>>, waybackpy_available |-> FALSE, api_key |-> FALSE,
     cdx |-> NoCall, wayback_history |-> EmptySummary]

\* POST /tasks/ with body {"domains": [{"domain_name": d} for d in domains]}:
\* AnalysisTaskCreate accepts every list of DomainInput
create_analysis_task(domains) ==
    /\ LoopFree
    /\ Cardinality(DOMAIN fake_tasks_db) < MaxTasks
    /\ Len(domains) <= MaxDomains - DomainsSubmitted
    /\ fake_tasks_db' = fake_tasks_db @@ (NewTaskId :> TaskInfo(NewTaskId, domains))
    \* background_tasks.add_task(run_domain_analysis_background, ...)
    /\ worker' = worker @@ (NewTaskId :> QueuedWorker(domains))
    /\ UNCHANGED <<fake_reports_db, reports_created, streams,
                   waybackpy_installed, openrouter_api_key>>

\* ------------------------------------------- run_domain_analysis_background
\* lines 91-95: the first statements of the worker
WorkerStart(t) ==
    /\ t \in DOMAIN worker
    /\ worker[t].pc = "queued"
    /\ LoopFree
    /\ fake_tasks_db' =
          IF t \in DOMAIN fake_tasks_db
          THEN [fake_tasks_db EXCEPT ![t].status = PROCESSING,
                                     ![t].message = MsgStarted,
                                     ![t].updated_at = UtcNowAfter(@)]
          ELSE fake_tasks_db
    /\ worker' = [worker EXCEPT ![t].pc = "services"]
    /\ UNCHANGED <<fake_reports_db, reports_created, streams,
                   waybackpy_installed, openrouter_api_key>>

\* a loop that leaves the last domain out
LoopPc_SkipsLast(i, n) == IF i + 1 < n THEN "progress" ELSE "finish"

\* where the loop of line 101 goes once i of n domains are done
LoopPc(i, n) == IF i < n THEN "progress" ELSE "finish"

\* lines 97-100: WaybackService(), OpenRouterService(), results = []
WorkerServices(t) ==
    /\ t \in DOMAIN worker
    /\ worker[t].pc = "services"
    /\ worker' = [worker EXCEPT
          ![t].waybackpy_available = waybackpy_installed,
          ![t].api_key = openrouter_api_key,
          ![t].results = <<>>,
          ![t].pc = LoopPc(0, Len(worker[t].domains_to_analyze))]
    /\ UNCHANGED <<fake_tasks_db, fake_reports_db, reports_created, streams,
                   waybackpy_installed, openrouter_api_key>>

\* statements of the worker that no try/except encloses: the two constructors
\* of lines 97-98 and the dump of the results at line 124
UnprotectedPcs == {"services", "finish"}

\* an exception raised at such a statement propagates out of the coroutine,
\* nothing catches it. WaybackService() catches ImportError only; the dump of
\* a result at line 124 runs once line 123 has stored COMPLETED
WorkerFault(t) ==
    /\ t \in DOMAIN worker
    /\ worker[t].pc \in UnprotectedPcs
    /\ worker[t].pc = "finish" => Len(worker[t].results) > 0
    /\ fake_tasks_db' =
          IF worker[t].pc = "finish" /\ t \in DOMAIN fake_tasks_db
          THEN [fake_tasks_db EXCEPT ![t].status = COMPLETED]
          ELSE fake_tasks_db
    /\ worker' = [worker EXCEPT ![t].pc = "aborted"]
    /\ UNCHANGED <<fake_reports_db, reports_created, streams,
                   waybackpy_installed, openrouter_api_key>>

\* a progress update that also stores the results gathered so far
WorkerProgress_PublishesSoFar(t) ==
    /\ t \in DOMAIN worker
    /\ worker[t].pc = "progress"
    /\ LET w == worker[t]
           n == Len(w.domains_to_analyze)
           domain_name == w.domains_to_analyze[w.i + 1]
       IN  fake_tasks_db' =
              IF t \in DOMAIN fake_tasks_db
              THEN [fake_tasks_db EXCEPT
                       ![t].message = MsgProgress(w.i + 1, n, domain_name),
                       ![t].results = w.results,
                       ![t].updated_at = UtcNowAfter(@)]
              ELSE fake_tasks_db
    /\ worker' = [worker EXCEPT ![t].pc = "sleep"]
    /\ UNCHANGED <<fake_reports_db, reports_created, streams,
                   waybackpy_installed, openrouter_api_key>>

\* a progress update that puts the task back in the queue
WorkerProgress_Requeues(t) ==
    /\ t \in DOMAIN worker
    /\ worker[t].pc = "progress"
    /\ fake_tasks_db' = [fake_tasks_db EXCEPT ![t].status = PENDING,
                                              ![t].updated_at = UtcNowAfter(@)]
    /\ worker' = [worker EXCEPT ![t].pc = "sleep"]
    /\ UNCHANGED <<fake_reports_db, reports_created, streams,
                   waybackpy_installed, openrouter_api_key>>

\* lines 101-109: the progress message of domain i+1, then await asyncio.sleep
WorkerProgress(t) ==
    /\ t \in DOMAIN worker
    /\ worker[t].pc = "progress"
    /\ LET w == worker[t]
           n == Len(w.domains_to_analyze)
           domain_name == w.domains_to_analyze[w.i + 1]
       IN  fake_tasks_db' =
              IF t \in DOMAIN fake_tasks_db
              THEN [fake_tasks_db EXCEPT
                       ![t].message = MsgProgress(w.i + 1, n, domain_name),
                       ![t].updated_at = UtcNowAfter(@)]
              ELSE fake_tasks_db
    /\ worker' = [worker EXCEPT ![t].pc = "sleep"]
    /\ UNCHANGED <<fake_reports_db, reports_created, streams,
                   waybackpy_installed, openrouter_api_key>>

\* the results list built at the front: a result is put before the earlier ones
AppendResult_Prepend(w, thematic_error, raised) ==
    LET domain_name == w.domains_to_analyze[w.i + 1]
        result == IF raised THEN FailedResult(domain_name)
                  ELSE process_single_domain(domain_name, w.wayback_history, thematic_error)
    IN  [w EXCEPT !.results = <<result>> \o w.results,
                  !.i = w.i + 1,
                  !.wayback_history = EmptySummary,
                  !.pc = LoopPc(w.i + 1, Len(w.domains_to_analyze))]

\* lines 111-120: the end of one iteration: the result of the domain is
\* appended, or, when process_single_domain raised, the error result
AppendResult(w, thematic_error, raised) ==
    LET domain_name == w.domains_to_analyze[w.i + 1]
        result == IF raised THEN FailedResult(domain_name)
                  ELSE process_single_domain(domain_name, w.wayback_history, thematic_error)
    IN  [w EXCEPT !.results = Append(w.results, result),
                  !.i = w.i + 1,
                  !.wayback_history = EmptySummary,
                  !.pc = LoopPc(w.i + 1, Len(w.domains_to_analyze))]

\* a loop without the try/except of lines 111-120: an exception raised by
\* process_single_domain leaves the coroutine
AfterHistory_Unprotected(w, wayback_history, raised) ==
    LET w1 == [w EXCEPT !.wayback_history = wayback_history]
    IN  IF raised THEN [w1 EXCEPT !.pc = "aborted"]
        ELSE IF w.api_key THEN [w1 EXCEPT !.pc = "llm"]
        ELSE AppendResult(w1, ErrNoApiKey, FALSE)

\* process_single_domain lines 37-45 with the history in hand: the LLM is
\* awaited when a key is configured, otherwise the domain is finished at once
AfterHistory(w, wayback_history, raised) ==
    LET w1 == [w EXCEPT !.wayback_history = wayback_history]
    IN  IF raised THEN AppendResult(w1, "", TRUE)
        ELSE IF w.api_key THEN [w1 EXCEPT !.pc = "llm"]
        ELSE AppendResult(w1, ErrNoApiKey, FALSE)

\* the sleep of line 109 is over; process_single_domain is called and asks for
\* the history: answered at once without the library; otherwise
\* blocking_cdx_api_check runs in a thread of the executor, against what the
\* archive (one of answers) gives for the domain, and the worker awaits it
CallHistory(t, answers) ==
    /\ t \in DOMAIN worker
    /\ worker[t].pc = "sleep"
    /\ LoopFree
    /\ IF worker[t].waybackpy_available
       THEN \E cdx \in answers :
              worker' = [worker EXCEPT ![t].pc = "cdx", ![t].cdx = cdx]
       ELSE \E raised \in BOOLEAN :
              worker' = [worker EXCEPT ![t] =
                  AfterHistory(worker[t], get_domain_history_summary(FALSE, CdxAnswer("", <<>>)), raised)]
    /\ UNCHANGED <<fake_tasks_db, fake_reports_db, reports_created, streams,
                   waybackpy_installed, openrouter_api_key>>

WorkerCallHistory(t) == CallHistory(t, CdxAnswers)

\* the summary get_domain_history_summary builds from each answer of the
\* archive, computed once for the answers the specifications draw from
HistorySummaries ==
    [cdx \in ArchiveAnswers |-> get_domain_history_summary(TRUE, cdx)]

\* loop.run_in_executor(None, blocking_cdx_api_check) returns
WorkerHistoryReturns(t) ==
    /\ t \in DOMAIN worker
    /\ worker[t].pc = "cdx"
    /\ LoopFree
    /\ \E raised \in BOOLEAN :
         worker' = [worker EXCEPT ![t] =
             AfterHistory([worker[t] EXCEPT !.cdx = NoCall],
                          HistorySummaries[worker[t].cdx], raised)]
    /\ UNCHANGED <<fake_tasks_db, fake_reports_db, reports_created, streams,
                   waybackpy_installed, openrouter_api_key>>

\* openrouter_service.get_thematic_analysis returns
WorkerThematicReturns(t) ==
    /\ t \in DOMAIN worker
    /\ worker[t].pc = "llm"
    /\ LoopFree
    /\ \E thematic_error \in LlmAnswers, raised \in BOOLEAN :
         worker' = [worker EXCEPT ![t] = AppendResult(worker[t], thematic_error, raised)]
    /\ UNCHANGED <<fake_tasks_db, fake_reports_db, reports_created, streams,
                   waybackpy_installed, openrouter_api_key>>

\* the timer of the request (timeout=60, line 114) fires: asyncio.TimeoutError
\* is caught at line 141 and get_thematic_analysis returns the error
WorkerThematicTimeout(t) ==
    /\ t \in DOMAIN worker
    /\ worker[t].pc = "llm"
    /\ LoopFree
    /\ worker' = [worker EXCEPT ![t] = AppendResult(worker[t], ErrLlmTimeout, FALSE)]
    /\ UNCHANGED <<fake_tasks_db, fake_reports_db, reports_created, streams,
                   waybackpy_installed, openrouter_api_key>>

\* a worker that publishes into the task stored first, whatever its task_id
WorkerFinish_FirstTask(t) ==
    /\ t \in DOMAIN worker
    /\ worker[t].pc = "finish"
    /\ fake_tasks_db' =
          IF 1 \in DOMAIN fake_tasks_db
          THEN [fake_tasks_db EXCEPT ![1].status = COMPLETED,
                                     ![1].results = worker[t].results,
                                     ![1].message = MsgCompleted,
                                     ![1].updated_at = UtcNowAfter(@)]
          ELSE fake_tasks_db
    /\ worker' = [worker EXCEPT ![t].pc = "done"]
    /\ UNCHANGED <<fake_reports_db, reports_created, streams,
                   waybackpy_installed, openrouter_api_key>>

\* lines 122-126: the results are published and the task is COMPLETED
WorkerFinish(t) ==
    /\ t \in DOMAIN worker
    /\ worker[t].pc = "finish"
    /\ fake_tasks_db' =
          IF t \in DOMAIN fake_tasks_db
          THEN [fake_tasks_db EXCEPT ![t].status = COMPLETED,
                                     ![t].results = worker[t].results,
                                     ![t].message = MsgCompleted,
                                     ![t].updated_at = UtcNowAfter(@)]
          ELSE fake_tasks_db
    /\ worker' = [worker EXCEPT ![t].pc = "done"]
    /\ UNCHANGED <<fake_reports_db, reports_created, streams,
                   waybackpy_installed, openrouter_api_key>>

\* the steps the worker of task t takes when nothing faults
Worker(t) ==
    \/ WorkerStart(t)
    \/ WorkerServices(t)
    \/ WorkerProgress(t)
    \/ WorkerCallHistory(t)
    \/ WorkerHistoryReturns(t)
    \/ WorkerThematicReturns(t)
    \/ WorkerFinish(t)

\* the steps of the worker that wait for nothing outside the process
WorkerLocal(t) ==
    \/ WorkerStart(t)
    \/ WorkerServices(t)
    \/ WorkerProgress(t)
    \/ WorkerCallHistory(t)
    \/ WorkerFinish(t)

\* the worker of task t run against the answers of FilterAnswers
FilterWorker(t) ==
    \/ WorkerStart(t)
    \/ WorkerServices(t)
    \/ WorkerProgress(t)
    \/ CallHistory(t, FilterAnswers)
    \/ WorkerHistoryReturns(t)
    \/ WorkerThematicReturns(t)
    \/ WorkerFinish(t)

\* the worker of task t run against the answers of AnalyzerAnswers
AnalyzerWorker(t) ==
    \/ WorkerStart(t)
    \/ WorkerServices(t)
    \/ WorkerProgress(t)
    \/ CallHistory(t, AnalyzerAnswers)
    \/ WorkerHistoryReturns(t)
    \/ WorkerThematicReturns(t)
    \/ WorkerFinish(t)
\* ------------------------------------------------ the read endpoints of tasks
\* what a handler leaves behind: its response and the two stores
Out(response, tasks, reports) ==
    [response |-> response, fake_tasks_db |-> tasks, fake_reports_db |-> reports]

\* GET /tasks/{task_id}/status
get_task_status_http(task_id) ==
    IF task_id \notin DOMAIN fake_tasks_db
    THEN Out(HTTPException(404, NoTask), fake_tasks_db, fake_reports_db)
    ELSE Out(Response(200, fake_tasks_db[task_id], <<>>), fake_tasks_db, fake_reports_db)

\* lines 186-195 (and 297-306): the long-live test of one result, as Python
\* evaluates it: "and" stops at the first false operand, and an order
\* comparison of None raises TypeError
LongLive(result) ==
    IF result.total_snapshots = Null THEN "TypeError"
    ELSE IF ~(result.total_snapshots >= 5) THEN "no"
    ELSE IF result.years_covered = Null THEN "TypeError"
    ELSE IF ~(result.years_covered >= 3) THEN "no"
    ELSE IF ~(result.avg_interval_days # Null /\ result.avg_interval_days < 90 * 100) THEN "no"
    ELSE IF ~(result.max_gap_days # Null /\ result.max_gap_days < 180) THEN "no"
    ELSE "yes"

\* lines 324-327: the Long-live column of the export, which has no None test
LongLiveColumn(result) ==
    IF result.total_snapshots = Null THEN "TypeError"
    ELSE IF ~(result.total_snapshots >= 5) THEN "no"
    ELSE IF result.years_covered = Null THEN "TypeError"
    ELSE IF ~(result.years_covered >= 3) THEN "no"
    ELSE IF result.avg_interval_days = Null THEN "TypeError"
    ELSE IF ~(result.avg_interval_days < 90 * 100) THEN "no"
    ELSE IF result.max_gap_days = Null THEN "TypeError"
    ELSE IF ~(result.max_gap_days < 180) THEN "no"
    ELSE "yes"

\* the loop over the results stops at the first comparison that raises
FilterRaises(results) == \E k \in 1..Len(results) : LongLive(results[k]) = "TypeError"

ColumnRaises(results) == \E k \in 1..Len(results) : LongLiveColumn(results[k]) = "TypeError"

\* lines 178-198: filtered_task["results"] for the given filter_type
FilteredResults(results, filter_type) ==
    IF filter_type = "long-live"
    THEN SelectSeq(results, LAMBDA r : LongLive(r) = "yes")
    ELSE results

FilterTypes == {"", "long-live"}       \* filter_type: None or "long-live"

\* a report endpoint without the status test of lines 175-176
get_task_report_Unguarded(task_id, filter_type) ==
    IF task_id \notin DOMAIN fake_tasks_db
    THEN Out(HTTPException(404, NoTask), fake_tasks_db, fake_reports_db)
    ELSE LET task == fake_tasks_db[task_id] IN
         Out(Response(200, task, FilteredResults(task.results, filter_type)),
             fake_tasks_db, fake_reports_db)

\* GET /tasks/{task_id}/report
get_task_report(task_id, filter_type) ==
    IF task_id \notin DOMAIN fake_tasks_db
    THEN Out(HTTPException(404, NoTask), fake_tasks_db, fake_reports_db)
    ELSE LET task == fake_tasks_db[task_id] IN
         IF task.status # COMPLETED
         THEN Out(HTTPException(400, task), fake_tasks_db, fake_reports_db)
         ELSE IF filter_type = "long-live" /\ FilterRaises(task.results)
         THEN Out(HTTPException(500, task), fake_tasks_db, fake_reports_db)
         ELSE Out(Response(200, task, FilteredResults(task.results, filter_type)),
                  fake_tasks_db, fake_reports_db)

ExportFormats == {"excel", "csv", "pdf"}
RequestFormats == {"excel", "xml"}

\* lines 312-328: the rows of the export
ExportRows(results) ==
    [k \in 1..Len(results) |->
        [domain_name |-> results[k].domain_name, long_live |-> LongLiveColumn(results[k])]]

\* a download that filters the stored task itself: filtered_task = task
\* instead of the copy dict(task) of line 293
download_report_FiltersInPlace(task_id, format, filter_type) ==
    IF task_id \notin DOMAIN fake_tasks_db
    THEN Out(HTTPException(404, NoTask), fake_tasks_db, fake_reports_db)
    ELSE LET task == fake_tasks_db[task_id] IN
         IF task.status # COMPLETED
         THEN Out(HTTPException(400, task), fake_tasks_db, fake_reports_db)
         ELSE IF filter_type = "long-live" /\ FilterRaises(task.results)
         THEN Out(HTTPException(500, task), fake_tasks_db, fake_reports_db)
         ELSE LET results == FilteredResults(task.results, filter_type)
                  tasks == [fake_tasks_db EXCEPT ![task_id].results = results]
              IN
              IF ColumnRaises(results)
              THEN Out(HTTPException(500, task), tasks, fake_reports_db)
              ELSE IF format \notin ExportFormats
              THEN Out(HTTPException(400, task), tasks, fake_reports_db)
              ELSE Out(Response(200, task, ExportRows(results)),
                       tasks, fake_reports_db)

\* GET /tasks/{task_id}/download
download_report(task_id, format, filter_type) ==
    IF task_id \notin DOMAIN fake_tasks_db
    THEN Out(HTTPException(404, NoTask), fake_tasks_db, fake_reports_db)
    ELSE LET task == fake_tasks_db[task_id] IN
         IF task.status # COMPLETED
         THEN Out(HTTPException(400, task), fake_tasks_db, fake_reports_db)
         ELSE IF filter_type = "long-live" /\ FilterRaises(task.results)
         THEN Out(HTTPException(500, task), fake_tasks_db, fake_reports_db)
         ELSE LET results == FilteredResults(task.results, filter_type) IN
              IF ColumnRaises(results)
              THEN Out(HTTPException(500, task), fake_tasks_db, fake_reports_db)
              ELSE IF format \notin ExportFormats
              THEN Out(HTTPException(400, task), fake_tasks_db, fake_reports_db)
              ELSE Out(Response(200, task, ExportRows(results)),
                       fake_tasks_db, fake_reports_db)

\* the task id of a request: the id of a stored task, or one the store lacks
RequestIds == DOMAIN fake_tasks_db \cup {UnknownId}

\* a handler runs on the event loop, between two steps of the workers
Handle(out) ==
    /\ LoopFree
    /\ fake_tasks_db' = out.fake_tasks_db
    /\ fake_reports_db' = out.fake_reports_db
    /\ UNCHANGED <<reports_created, worker, streams, waybackpy_installed, openrouter_api_key>>

GetTaskStatus == \E task_id \in RequestIds : Handle(get_task_status_http(task_id))

GetTaskReport ==
    \E task_id \in RequestIds, filter_type \in FilterTypes :
        Handle(get_task_report(task_id, filter_type))

DownloadReport ==
    \E task_id \in RequestIds, format \in RequestFormats, filter_type \in FilterTypes :
        Handle(download_report(task_id, format, filter_type))

\* ------------------------------------------------------------- reports.py
\* FilterCriteria() with its defaults, and filter_criteria = None
DefaultCriteria ==
    [min_snapshots |-> 5, min_years |-> 3, max_avg_interval |-> 90,
     max_gap |-> 180, min_timemap |-> 200]
NoCriteria ==
    [min_snapshots |-> Null, min_years |-> Null, max_avg_interval |-> Null,
     max_gap |-> Null, min_timemap |-> Null]

GENERAL == "general"
FILTERED == "filtered"

\* x.get(key, 0) or 0
OrZero(x) == IF x = Null THEN 0 ELSE x

\* x.get(key, float('inf')) or float('inf') is infinite: x is None or 0
OrInf(x) == x = Null \/ x = 0

\* reports.py lines 19-38 (avg_interval_days is in hundredths of a day)
apply_filter_criteria(domain_data, criteria) ==
    /\ OrZero(domain_data.total_snapshots) >= criteria.min_snapshots
    /\ OrZero(domain_data.years_covered) >= criteria.min_years
    /\ ~OrInf(domain_data.avg_interval_days)
    /\ domain_data.avg_interval_days <= criteria.max_avg_interval * 100
    /\ ~OrInf(domain_data.max_gap_days)
    /\ domain_data.max_gap_days <= criteria.max_gap
    /\ OrZero(domain_data.timemap_count) >= criteria.min_timemap

NoReport ==
    [id |-> 0, report_type |-> "", filter_criteria |-> NoCriteria, task_id |-> UnknownId,
     domains_count |-> 0, results |-> <<>>]

ReportResponse(code, report) == [code |-> code, report |-> report]

\* Report.id's default_factory uuid4(): an id no report ever had
NewReportId == reports_created + 1

\* a create_report that counts the domains before it filters them
create_report_CountsAll(report_data) ==
    IF report_data.task_id \notin DOMAIN fake_tasks_db
    THEN Out(ReportResponse(404, NoReport), fake_tasks_db, fake_reports_db)
    ELSE LET task == fake_tasks_db[report_data.task_id] IN
         IF task.status # "completed"
         THEN Out(ReportResponse(400, NoReport), fake_tasks_db, fake_reports_db)
         ELSE LET all_results == task.results
                  results ==
                      IF report_data.report_type = FILTERED
                         /\ report_data.filter_criteria # NoCriteria
                      THEN SelectSeq(all_results,
                               LAMBDA r : apply_filter_criteria(r, report_data.filter_criteria))
                      ELSE all_results
                  report ==
                      [id |-> NewReportId, report_type |-> report_data.report_type,
                       filter_criteria |-> report_data.filter_criteria,
                       task_id |-> report_data.task_id,
                       domains_count |-> Len(all_results), results |-> results]
              IN  Out(ReportResponse(200, report), fake_tasks_db,
                      fake_reports_db @@ (report.id :> report))

\* POST /reports/
create_report(report_data) ==
    IF report_data.task_id \notin DOMAIN fake_tasks_db
    THEN Out(ReportResponse(404, NoReport), fake_tasks_db, fake_reports_db)
    ELSE LET task == fake_tasks_db[report_data.task_id] IN
         IF task.status # "completed"
         THEN Out(ReportResponse(400, NoReport), fake_tasks_db, fake_reports_db)
         ELSE LET all_results == task.results
                  results ==
                      IF report_data.report_type = FILTERED
                         /\ report_data.filter_criteria # NoCriteria
                      THEN SelectSeq(all_results,
                               LAMBDA r : apply_filter_criteria(r, report_data.filter_criteria))
                      ELSE all_results
                  report ==
                      [id |-> NewReportId, report_type |-> report_data.report_type,
                       filter_criteria |-> report_data.filter_criteria,
                       task_id |-> report_data.task_id,
                       domains_count |-> Len(results), results |-> results]
              IN  Out(ReportResponse(200, report), fake_tasks_db,
                      fake_reports_db @@ (report.id :> report))

\* GET /reports/
list_reports ==
    Out([code |-> 200, reports |-> fake_reports_db], fake_tasks_db, fake_reports_db)

\* GET /reports/{report_id}
get_report(report_id) ==
    IF report_id \notin DOMAIN fake_reports_db
    THEN Out(ReportResponse(404, NoReport), fake_tasks_db, fake_reports_db)
    ELSE Out(ReportResponse(200, fake_reports_db[report_id]), fake_tasks_db, fake_reports_db)

\* an idempotent delete: 204 whether or not the report exists
delete_report_Idempotent(report_id) ==
    Out(ReportResponse(204, NoReport), fake_tasks_db,
        [r \in DOMAIN fake_reports_db \ {report_id} |-> fake_reports_db[r]])

\* DELETE /reports/{report_id}
delete_report(report_id) ==
    IF report_id \notin DOMAIN fake_reports_db
    THEN Out(ReportResponse(404, NoReport), fake_tasks_db, fake_reports_db)
    ELSE Out(ReportResponse(204, NoReport), fake_tasks_db,
             [r \in DOMAIN fake_reports_db \ {report_id} |-> fake_reports_db[r]])

ReportCreate(report_type, filter_criteria, task_id) ==
    [report_type |-> report_type, filter_criteria |-> filter_criteria, task_id |-> task_id]

\* the bodies POST /reports/ is sent
ReportRequests ==
    { ReportCreate(x[1], x[2], task_id) :
        x \in {<<GENERAL, NoCriteria>>, <<FILTERED, NoCriteria>>, <<FILTERED, DefaultCriteria>>},
        task_id \in RequestIds }

\* the report id of a request: the id of a stored report, or one the store lacks
RequestReportIds == DOMAIN fake_reports_db \cup {0}

\* FilterCriteria(min_snapshots=..., ...) of a request body
FilterCriteria(min_snapshots, min_years, max_avg_interval, max_gap, min_timemap) ==
    [min_snapshots |-> min_snapshots, min_years |-> min_years,
     max_avg_interval |-> max_avg_interval, max_gap |-> max_gap,
     min_timemap |-> min_timemap]

\* the criteria the filter is run with: the defaults, the defaults without
\* and with a reachable timemap condition, and thresholds low enough for a
\* domain with two captures
FilterCriteriaInputs ==
    { DefaultCriteria, FilterCriteria(5, 3, 90, 180, 0), FilterCriteria(5, 3, 90, 180, 6),
      FilterCriteria(6, 3, 77, 78, 6), FilterCriteria(1, 1, 90, 180, 0) }

\* the bodies POST /reports/ is sent when the filter is exercised
FilterRequests ==
    { ReportCreate(FILTERED, criteria, task_id) :
        criteria \in FilterCriteriaInputs \cup {NoCriteria}, task_id \in RequestIds }

\* POST /reports/ with one of the bodies of requests, while fewer than max
\* reports were created
CreateReportUpTo(requests, max) ==
    \E report_data \in requests :
        LET out == create_report(report_data) IN
        /\ LoopFree
        /\ out.response.code = 200 => reports_created < max
        /\ fake_tasks_db' = out.fake_tasks_db
        /\ fake_reports_db' = out.fake_reports_db
        /\ reports_created' = IF out.response.code = 200 THEN reports_created + 1
                              ELSE reports_created
        /\ UNCHANGED <<worker, streams, waybackpy_installed, openrouter_api_key>>

CreateReportFrom(requests) == CreateReportUpTo(requests, MaxReports)

CreateReport == CreateReportFrom(ReportRequests)

ListReports == Handle(list_reports)

GetReport == \E report_id \in RequestReportIds : Handle(get_report(report_id))

DeleteReport == \E report_id \in RequestReportIds : Handle(delete_report(report_id))

\* ------------------------------------------------ sse_task_status_generator
\* json.dumps of the four fields the stream sends (lines 220-225)
StatusJson(task_info) ==
    [task_id |-> task_info.task_id, status |-> task_info.status,
     message |-> task_info.message, updated_at |-> task_info.updated_at]

NoJson == [task_id |-> UnknownId, status |-> "", message |-> Msg(""), updated_at |-> Null]

\* one event written to the stream: "message" is the default SSE event
Event(event, data) == [event |-> event, data |-> data]

\* the generator of a new StreamingResponse, not yet run
NewStream(task_id) ==
    [task_id |-> task_id, pc |-> "poll", last_sent_status_json |-> NoJson,
     current_status_json |-> NoJson, emitted |-> <<>>, disconnected |-> FALSE]

NewStreamId == Cardinality(DOMAIN streams) + 1

\* GET /tasks/{task_id}/stream-status: the response and the streams it leaves
stream_task_status(task_id) ==
    IF task_id \notin DOMAIN fake_tasks_db
    THEN [response |-> HTTPException(404, NoTask), fake_tasks_db |-> fake_tasks_db,
          fake_reports_db |-> fake_reports_db, streams |-> streams]
    ELSE [response |-> Response(200, fake_tasks_db[task_id], <<>>),
          fake_tasks_db |-> fake_tasks_db, fake_reports_db |-> fake_reports_db,
          streams |-> streams @@ (NewStreamId :> NewStream(task_id))]

StreamTaskStatus ==
    \E task_id \in RequestIds :
        LET out == stream_task_status(task_id) IN
        /\ LoopFree
        /\ Cardinality(DOMAIN out.streams) <= MaxStreams
        /\ fake_tasks_db' = out.fake_tasks_db
        /\ fake_reports_db' = out.fake_reports_db
        /\ streams' = out.streams
        /\ UNCHANGED <<reports_created, worker, waybackpy_installed, openrouter_api_key>>

Terminal(status) == status = COMPLETED \/ status = FAILED

\* a generator that breaks on a terminal status without the event of line 233
AfterSend_Silent(st, current_status_json) ==
    IF Terminal(fake_tasks_db[st.task_id].status)
    THEN [st EXCEPT !.current_status_json = NoJson, !.pc = "closed"]
    ELSE [st EXCEPT !.current_status_json = NoJson, !.pc = "poll"]

\* lines 231-236 with current_status_json in hand: the terminal test reads the
\* status of the stored task at that moment
AfterSend(st, current_status_json) ==
    IF Terminal(fake_tasks_db[st.task_id].status)
    THEN [st EXCEPT !.emitted = Append(@, Event("complete", current_status_json)),
                    !.current_status_json = NoJson,
                    !.pc = "closed"]
    ELSE [st EXCEPT !.current_status_json = NoJson, !.pc = "poll"]

\* a loop without the comparison of line 227: every turn sends the snapshot
PollStep_EveryTurn(st) ==
    IF st.disconnected THEN [st EXCEPT !.pc = "closed"]
    ELSE IF st.task_id \notin DOMAIN fake_tasks_db
    THEN [st EXCEPT !.emitted = Append(@, Event("error", NoJson)), !.pc = "closed"]
    ELSE LET current_status_json == StatusJson(fake_tasks_db[st.task_id]) IN
         [st EXCEPT !.emitted = Append(@, Event("message", current_status_json)),
                    !.last_sent_status_json = current_status_json,
                    !.current_status_json = current_status_json,
                    !.pc = "yielded"]

\* one turn of the loop, lines 209-229: from the disconnect test (the first
\* turn also makes the test of line 205) to the yield of a changed status, or,
\* when nothing changed, on to the terminal test
PollStep(st) ==
    IF st.disconnected THEN [st EXCEPT !.pc = "closed"]
    ELSE IF st.task_id \notin DOMAIN fake_tasks_db
    THEN [st EXCEPT !.emitted = Append(@, Event("error", NoJson)), !.pc = "closed"]
    ELSE LET current_status_json == StatusJson(fake_tasks_db[st.task_id]) IN
         IF current_status_json # st.last_sent_status_json
         THEN [st EXCEPT !.emitted = Append(@, Event("message", current_status_json)),
                         !.last_sent_status_json = current_status_json,
                         !.current_status_json = current_status_json,
                         !.pc = "yielded"]
         ELSE AfterSend(st, current_status_json)

StreamPoll(s) ==
    /\ s \in DOMAIN streams
    /\ streams[s].pc = "poll"
    /\ LoopFree
    /\ streams' = [streams EXCEPT ![s] = PollStep(streams[s])]
    /\ UNCHANGED <<fake_tasks_db, fake_reports_db, reports_created, worker,
                   waybackpy_installed, openrouter_api_key>>

\* a generator that is resumed whether or not its client is still there
ResumeStep_AfterDisconnect(st) == AfterSend(st, st.current_status_json)

\* the generator is resumed after the yield of line 228; the response no longer
\* iterates the generator of a client that is gone
ResumeStep(st) ==
    IF st.disconnected THEN [st EXCEPT !.current_status_json = NoJson, !.pc = "closed"]
    ELSE AfterSend(st, st.current_status_json)

StreamResume(s) ==
    /\ s \in DOMAIN streams
    /\ streams[s].pc = "yielded"
    /\ LoopFree
    /\ streams' = [streams EXCEPT ![s] = ResumeStep(streams[s])]
    /\ UNCHANGED <<fake_tasks_db, fake_reports_db, reports_created, worker,
                   waybackpy_installed, openrouter_api_key>>

\* the client of stream s goes away
ClientDisconnect(s) ==
    /\ s \in DOMAIN streams
    /\ streams[s].pc # "closed"
    /\ ~streams[s].disconnected
    /\ streams' = [streams EXCEPT ![s].disconnected = TRUE]
    /\ UNCHANGED <<fake_tasks_db, fake_reports_db, reports_created, worker,
                   waybackpy_installed, openrouter_api_key>>

\* ------------------------------------------------------------------ claims
\* C1: every task submitted with a non-empty domain list eventually reaches a
\* terminal status (COMPLETED or FAILED) when its worker is scheduled fairly,
\* and whenever the stored status is COMPLETED the stored results have exactly
\* as many entries as the submitted domain list.
C1_TerminatesWithAllResults ==
    /\ \A t \in TaskIds :
          (t \in DOMAIN fake_tasks_db /\ Len(fake_tasks_db[t].domains_submitted) > 0)
             ~> (t \in DOMAIN fake_tasks_db /\ Terminal(fake_tasks_db[t].status))
    /\ [](\A t \in DOMAIN fake_tasks_db :
             fake_tasks_db[t].status = COMPLETED
                => Len(fake_tasks_db[t].results) = Len(fake_tasks_db[t].domains_submitted))

\* C2: the k-th entry of a task's stored results has the domain name of the
\* k-th submitted domain, whatever the answers and failures of the domains.
C2_ResultOrder ==
    \A t \in DOMAIN fake_tasks_db :
        LET task == fake_tasks_db[t] IN
        /\ Len(task.results) <= Len(task.domains_submitted)
        /\ \A k \in 1..Len(task.results) :
              task.results[k].domain_name = task.domains_submitted[k]

\* a stored list of two results for two different names, the first of which is
\* the result of a domain whose processing raised
C2_TwoResultsStored ==
    \E t \in DOMAIN fake_tasks_db :
        LET task == fake_tasks_db[t] IN
        /\ Len(task.results) = 2
        /\ task.results[1].domain_name # task.results[2].domain_name
        /\ task.results[1].wayback_history_summary.error = ErrFailedToProcess
        /\ task.results[2].total_snapshots = Len(LongLivedSnapshots)

\* the status moves the task of a step may make
StatusMoves == {<<PENDING, PROCESSING>>, <<PROCESSING, COMPLETED>>, <<PROCESSING, FAILED>>}

\* C3: a task starts PENDING, its status only moves PENDING -> PROCESSING ->
\* {COMPLETED, FAILED}, and once it is COMPLETED or FAILED no step changes its
\* status, message or results.
C3_StatusMonotonic ==
    [][ /\ DOMAIN fake_tasks_db \subseteq DOMAIN fake_tasks_db'
        /\ \A t \in DOMAIN fake_tasks_db' \ DOMAIN fake_tasks_db :
              fake_tasks_db'[t].status = PENDING
        /\ \A t \in DOMAIN fake_tasks_db :
              LET old == fake_tasks_db[t]
                  new == fake_tasks_db'[t]
              IN  /\ new.status # old.status => <<old.status, new.status>> \in StatusMoves
                  /\ Terminal(old.status) =>
                        /\ new.status = old.status
                        /\ new.message = old.message
                        /\ new.results = old.results ]_vars

\* a task whose worker went through start, two domains and finish, next to a
\* second task that is still PENDING
C3_CompletedBesidePending ==
    \E t, u \in DOMAIN fake_tasks_db :
        /\ fake_tasks_db[t].status = COMPLETED
        /\ worker[t].pc = "done"
        /\ Len(fake_tasks_db[t].results) = 2
        /\ fake_tasks_db[u].status = PENDING

\* C4: when a fault outside the per-domain try/except has stopped the worker,
\* the task is FAILED and its message says so: it is not left in PROCESSING.
C4_AbortEndsFailed ==
    \A t \in DOMAIN worker :
        worker[t].pc = "aborted" =>
            /\ fake_tasks_db[t].status = FAILED
            /\ fake_tasks_db[t].message \notin
                 {MsgStarted} \cup
                 { MsgProgress(i, n, name) : i \in 1..MaxDomains, n \in 1..MaxDomains,
                                             name \in DomainNames }

\* positions of the worker inside one iteration of the loop over the domains
DomainPcs == {"progress", "sleep", "cdx", "llm"}

\* the result of a domain carries an error marker
ErrorMarked(result) ==
    \/ result.wayback_history_summary.error # ""
    \/ result.thematic_analysis_result.error # ""

\* C5: a failure while one domain is processed (the history fetch fails, the
\* LLM call fails, process_single_domain raises) never aborts the run: the
\* step that ends the domain appends exactly one result, for that domain and
\* with an error marker, the loop goes on to the next domain or to finish,
\* the run gets to its finish, and no task is ever FAILED.
C5_DomainFailureIsolated ==
    /\ \A t \in TaskIds :
          (t \in DOMAIN worker /\ worker[t].pc \in DomainPcs)
             ~> (t \in DOMAIN worker /\ worker[t].pc = "finish")
    /\ [](\A t \in DOMAIN fake_tasks_db : fake_tasks_db[t].status # FAILED)
    /\ [](\A t \in DOMAIN worker :
             LET w == worker[t]
                 n == Len(w.domains_to_analyze)
             IN  w.pc \in DomainPcs =>
                   /\ w.i < n
                   /\ Len(w.results) = w.i
                   /\ LET name == w.domains_to_analyze[w.i + 1]
                          raised == AppendResult(w, "", TRUE)
                          thematic == AppendResult(w, ErrLlmTimeout, FALSE)
                          history == AfterHistory(w, get_domain_history_summary(TRUE, CdxAnswer(ErrCdx, <<>>)), FALSE)
                      IN  /\ raised.results = Append(w.results, FailedResult(name))
                          /\ ErrorMarked(FailedResult(name))
                          /\ raised.pc = LoopPc(w.i + 1, n)
                          /\ Len(thematic.results) = w.i + 1
                          /\ thematic.results[w.i + 1].domain_name = name
                          /\ thematic.results[w.i + 1].thematic_analysis_result.error # ""
                          /\ thematic.pc = LoopPc(w.i + 1, n)
                          /\ history.pc \in {"llm", LoopPc(w.i + 1, n)}
                          /\ history.pc = "llm" => history.wayback_history.error # ""
                          /\ history.pc # "llm" =>
                                /\ Len(history.results) = w.i + 1
                                /\ history.results[w.i + 1].domain_name = name
                                /\ history.results[w.i + 1].wayback_history_summary.error # "")
    /\ [][\A t \in DOMAIN worker :
             LET w == worker[t]
                 w2 == worker'[t]
             IN  w.pc \in DomainPcs =>
                   /\ w2.pc \in DomainPcs \cup {"finish"}
                   /\ w2.i \in {w.i, w.i + 1}
                   /\ w2.i = w.i => w2.results = w.results
                   /\ w2.i = w.i + 1 =>
                         /\ SubSeq(w2.results, 1, w.i) = w.results
                         /\ Len(w2.results) = w.i + 1
                         /\ w2.pc = LoopPc(w2.i, Len(w.domains_to_analyze)) ]_vars

\* a task COMPLETED with two results: the first domain raised, the second was
\* processed after it and has its metrics
C5_FailedThenProcessed ==
    \E t \in DOMAIN fake_tasks_db :
        LET task == fake_tasks_db[t] IN
        /\ task.status = COMPLETED
        /\ Len(task.results) = 2
        /\ task.results[1] = FailedResult(task.domains_submitted[1])
        /\ ~ErrorMarked(task.results[2])
        /\ task.results[2].total_snapshots = Len(LongLivedSnapshots)

\* C6: a submission with an empty domain list is rejected before a task is
\* created: no task is stored and no worker is scheduled for an empty list.
C6_EmptyListRejected ==
    /\ \A t \in DOMAIN fake_tasks_db : Len(fake_tasks_db[t].domains_submitted) > 0
    /\ \A t \in DOMAIN worker : Len(worker[t].domains_to_analyze) > 0

\* C7: submit answers without waiting for the worker: as long as the worker of
\* a new task has not run, the task is stored PENDING with empty results,
\* created_at equal to updated_at and the submitted names in order, and the
\* response built from it reports PENDING; a new task's worker is only queued.
C7_SubmitReturnsPending ==
    /\ [](\A t \in DOMAIN worker :
             worker[t].pc = "queued" =>
                /\ t \in DOMAIN fake_tasks_db
                /\ fake_tasks_db[t].status = PENDING
                /\ fake_tasks_db[t].results = <<>>
                /\ fake_tasks_db[t].created_at = fake_tasks_db[t].updated_at
                /\ fake_tasks_db[t].domains_submitted = worker[t].domains_to_analyze
                /\ CreateResponse(fake_tasks_db, t).code = 202
                /\ CreateResponse(fake_tasks_db, t).status = PENDING
                /\ CreateResponse(fake_tasks_db, t).task_id = t)
    /\ [][\A t \in DOMAIN fake_tasks_db' \ DOMAIN fake_tasks_db :
             /\ t \in DOMAIN worker' /\ worker'[t].pc = "queued"
             /\ \A u \in DOMAIN fake_tasks_db : fake_tasks_db'[u] = fake_tasks_db[u] ]_vars

\* a second task has just been submitted with two names while the worker of
\* the first is in the middle of its run
C7_QueuedBesideRunning ==
    \E t, u \in DOMAIN fake_tasks_db :
        /\ worker[t].pc = "queued"
        /\ Len(fake_tasks_db[t].domains_submitted) = 1
        /\ fake_tasks_db[t].created_at = fake_tasks_db[t].updated_at
        /\ worker[u].pc = "cdx"
        /\ fake_tasks_db[u].status = PROCESSING

\* C8: get_task_report and download_report on a stored task that is not
\* COMPLETED answer 400 with the current status and no results; they answer
\* 200 only for a COMPLETED task.
C8_NotReadyUnlessCompleted ==
    \A task_id \in DOMAIN fake_tasks_db, filter_type \in FilterTypes :
        LET task == fake_tasks_db[task_id]
            responses ==
                {get_task_report(task_id, filter_type).response} \cup
                { download_report(task_id, format, filter_type).response :
                     format \in ExportFormats \cup RequestFormats }
        IN  \A response \in responses :
              /\ task.status # COMPLETED =>
                    /\ response.code = 400
                    /\ response.status = task.status
                    /\ response.results = <<>>
              /\ response.code = 200 => task.status = COMPLETED

\* one task is refused while PROCESSING with a result already computed by its
\* worker; another one is COMPLETED and its report is served
C8_RefusedAndServed ==
    \E t, u \in DOMAIN fake_tasks_db :
        /\ fake_tasks_db[t].status = PROCESSING
        /\ Len(worker[t].results) = 1
        /\ get_task_report(t, "").response.code = 400
        /\ download_report(t, "excel", "").response.code = 400
        /\ fake_tasks_db[u].status = COMPLETED
        /\ Len(fake_tasks_db[u].results) = 1
        /\ get_task_report(u, "").response.code = 200
        /\ download_report(u, "excel", "").response.code = 200

\* what the handlers answer to a task id and a report id the stores lack
UnknownTaskOuts(task_id) ==
    {get_task_status_http(task_id)}
    \cup { get_task_report(task_id, filter_type) : filter_type \in FilterTypes }
    \cup { download_report(task_id, format, filter_type) :
             format \in ExportFormats \cup RequestFormats, filter_type \in FilterTypes }
    \cup { create_report(ReportCreate(report_type, filter_criteria, task_id)) :
             report_type \in {GENERAL, FILTERED},
             filter_criteria \in {NoCriteria, DefaultCriteria} }

\* C9: every lookup by an id the stores do not hold (status, report, download,
\* stream subscription, create_report of an unknown task, get and delete of an
\* unknown report) answers 404 and leaves the task store and the report store
\* as they were; no stream is opened.
C9_UnknownIdNotFound ==
    /\ \A task_id \in (TaskIds \cup {UnknownId}) \ DOMAIN fake_tasks_db :
          /\ \A out \in UnknownTaskOuts(task_id) :
                /\ out.response.code = 404
                /\ out.fake_tasks_db = fake_tasks_db
                /\ out.fake_reports_db = fake_reports_db
          /\ LET out == stream_task_status(task_id) IN
                /\ out.response.code = 404
                /\ out.fake_tasks_db = fake_tasks_db
                /\ out.fake_reports_db = fake_reports_db
                /\ out.streams = streams
    /\ \A report_id \in (0..MaxReports) \ DOMAIN fake_reports_db :
          \A out \in {get_report(report_id), delete_report(report_id)} :
                /\ out.response.code = 404
                /\ out.fake_tasks_db = fake_tasks_db
                /\ out.fake_reports_db = fake_reports_db

\* a task is stored and being streamed, a report is stored: a lookup of an
\* unknown task and of an unknown report both have stores to leave alone
C9_LookupsBesideStoredData ==
    /\ DOMAIN fake_tasks_db # {}
    /\ DOMAIN fake_reports_db # {}
    /\ DOMAIN streams # {}
    /\ get_task_status_http(UnknownId).response.code = 404
    /\ stream_task_status(UnknownId).response.code = 404
    /\ create_report(ReportCreate(GENERAL, NoCriteria, UnknownId)).response.code = 404
    /\ delete_report(0).response.code = 404

\* the status and message of an event's snapshot
StatusMessage(e) == <<e.data.status, e.data.message>>

\* C10: a live stream is finite. Its plain snapshots have pairwise distinct
\* status/message pairs, the last one being the last it observed; the turn
\* of the loop that first observes COMPLETED or FAILED emits one 'complete'
\* event, which is the last event of the stream; a closed stream emits
\* nothing; and once the task is terminal the stream eventually closes.
C10_StreamFinite ==
    /\ [](\A s \in DOMAIN streams :
             LET st == streams[s]
                 e == st.emitted
                 plain == SelectSeq(e, LAMBDA x : x.event = "message")
             IN  /\ \A j, k \in 1..Len(plain) :
                       j < k => StatusMessage(plain[j]) # StatusMessage(plain[k])
                 /\ st.last_sent_status_json =
                       IF plain = <<>> THEN NoJson ELSE plain[Len(plain)].data
                 /\ \A k \in 1..Len(e) :
                       e[k].event = "complete" => k = Len(e) /\ st.pc = "closed"
                 /\ st.pc = "poll" => \A k \in 1..Len(e) : ~Terminal(e[k].data.status)
                 /\ (st.pc = "closed" /\ ~st.disconnected) =>
                       /\ Terminal(fake_tasks_db[st.task_id].status)
                       /\ e # <<>>
                       /\ e[Len(e)].event = "complete")
    /\ [][\A s \in DOMAIN streams :
             streams[s].pc = "closed" => streams'[s] = streams[s]]_vars
    /\ \A s \in StreamIds :
          (s \in DOMAIN streams /\ Terminal(fake_tasks_db[streams[s].task_id].status))
             ~> (s \in DOMAIN streams /\ streams[s].pc = "closed")

\* a subscriber stayed connected from PENDING to COMPLETED: the stream is
\* closed after a PENDING snapshot, PROCESSING snapshots, a COMPLETED snapshot
\* and the 'complete' event
C10_WholeRunStreamed ==
    \E s \in DOMAIN streams :
        LET st == streams[s]
            e == st.emitted
        IN  /\ st.pc = "closed"
            /\ ~st.disconnected
            /\ Len(e) >= 5
            /\ e[1].data.status = PENDING
            /\ e[2].data.status = PROCESSING
            /\ e[Len(e) - 1] = Event("message", e[Len(e)].data)
            /\ e[Len(e)].event = "complete"
            /\ e[Len(e)].data.status = COMPLETED

\* the plain snapshots among the events of a stream
Plain(emitted) == SelectSeq(emitted, LAMBDA x : x.event = "message")

\* C11: the live stream emits a plain snapshot only when it differs from the
\* last one it emitted: a turn of the loop appends at most one event, a plain
\* snapshot it appends is the stored task's current one and differs (in
\* status, message or updated_at) from the last one sent, and no two
\* successive plain snapshots of a stream are equal.
C11_EmitsOnlyChanges ==
    /\ [](\A s \in DOMAIN streams :
             LET plain == Plain(streams[s].emitted) IN
             \A k \in 1..(Len(plain) - 1) : plain[k].data # plain[k + 1].data)
    /\ [][ /\ \A s \in DOMAIN streams' \ DOMAIN streams :
                 /\ streams'[s].emitted = <<>>
                 /\ streams'[s].last_sent_status_json = NoJson
           /\ \A s \in DOMAIN streams :
                 LET st == streams[s]
                     st2 == streams'[s]
                     n == Len(st.emitted)
                 IN  st2.emitted # st.emitted =>
                       /\ Len(st2.emitted) = n + 1
                       /\ SubSeq(st2.emitted, 1, n) = st.emitted
                       /\ st2.emitted[n + 1].event = "message" =>
                             /\ st.pc = "poll"
                             /\ st2.emitted[n + 1].data # st.last_sent_status_json
                             /\ st2.emitted[n + 1].data = StatusJson(fake_tasks_db[st.task_id])
                             /\ st2.last_sent_status_json = st2.emitted[n + 1].data ]_vars

\* a stream that has sent the current snapshot polls a task whose worker waits
\* for the archive: its next turns observe nothing new
C11_PollsUnchangedTask ==
    \E s \in DOMAIN streams :
        LET st == streams[s] IN
        /\ st.pc = "poll"
        /\ Len(st.emitted) = 3
        /\ st.last_sent_status_json = StatusJson(fake_tasks_db[st.task_id])
        /\ worker[st.task_id].pc = "cdx"

\* C12: a subscriber that disconnects ends its stream with no further
\* emission, and no step of a stream (subscription, turn of the loop,
\* disconnection) touches a task or its worker: the worker of a task that is
\* being processed still gets to its finish.
C12_DisconnectLeavesTask ==
    /\ [][\A s \in DOMAIN streams :
             streams[s].disconnected =>
                /\ streams'[s].disconnected
                /\ streams'[s].emitted = streams[s].emitted]_vars
    /\ [][streams' # streams => (fake_tasks_db' = fake_tasks_db /\ worker' = worker)]_vars
    /\ (\E s \in StreamIds, t \in TaskIds :
            /\ s \in DOMAIN streams /\ t \in DOMAIN worker
            /\ streams[s].disconnected /\ worker[t].pc \in DomainPcs)
          ~> (\A s \in StreamIds, t \in TaskIds :
                 (s \in DOMAIN streams /\ t \in DOMAIN worker /\ streams[s].disconnected)
                    => (streams[s].pc = "closed" /\ worker[t].pc \notin DomainPcs))

\* the subscriber left while the task was PROCESSING: the stream is closed, its
\* last event is a PROCESSING snapshot, and the task went on to COMPLETED with
\* its results
C12_TaskOutlivesSubscriber ==
    \E s \in DOMAIN streams :
        LET st == streams[s]
            task == fake_tasks_db[st.task_id]
        IN  /\ st.pc = "closed"
            /\ st.disconnected
            /\ st.emitted # <<>>
            /\ st.emitted[Len(st.emitted)].data.status = PROCESSING
            /\ task.status = COMPLETED
            /\ Len(task.results) = 2
            /\ worker[st.task_id].pc = "done"


\* the awaits of process_single_domain on an external service
ExternalCallPcs == {"cdx", "llm"}

\* C13: each external call made for a domain is bounded by its own timeout and
\* a call that does not answer becomes an error marker of the domain: a
\* worker that waits for the archive or for the LLM always leaves that wait,
\* even when the service never answers, and no task is made FAILED.
C13_ExternalCallsBounded ==
    /\ [](\A t \in DOMAIN fake_tasks_db : fake_tasks_db[t].status # FAILED)
    /\ \A t \in TaskIds :
          (t \in DOMAIN worker /\ worker[t].pc \in ExternalCallPcs)
             ~> (t \in DOMAIN worker /\ worker[t].pc \notin ExternalCallPcs)

\* C14: for a COMPLETED task, get_task_report and download_report with
\* filter_type = "long-live" return exactly the results with total_snapshots
\* >= 5, years_covered >= 3, a defined avg_interval_days < 90 and a defined
\* max_gap_days < 180, in their original order (timemap_count plays no part);
\* without the filter they return every result.
C14_LongLiveFilter ==
    \A task_id \in DOMAIN fake_tasks_db :
        LET task == fake_tasks_db[task_id]
            selected(r) ==
                /\ r.total_snapshots # Null /\ r.total_snapshots >= 5
                /\ r.years_covered # Null /\ r.years_covered >= 3
                /\ r.avg_interval_days # Null /\ r.avg_interval_days < 90 * 100
                /\ r.max_gap_days # Null /\ r.max_gap_days < 180
            expected == SelectSeq(task.results, LAMBDA r : selected(r))
            names(results) == [k \in 1..Len(results) |-> results[k].domain_name]
            exported(filter_type) == download_report(task_id, "excel", filter_type).response
        IN  task.status = COMPLETED =>
              /\ get_task_report(task_id, "long-live").response = Response(200, task, expected)
              /\ get_task_report(task_id, "").response = Response(200, task, task.results)
              /\ exported("long-live").code = 200
              /\ names(exported("long-live").results) = names(expected)
              /\ exported("").code = 200
              /\ names(exported("").results) = names(task.results)

\* C16: in every filter path a result whose metrics are missing or undefined
\* is not selected and the evaluation raises nothing: for a COMPLETED task the
\* long-live report and the exports (whose rows carry the Long-live column)
\* are answered without a server error, and neither they nor a filter by
\* criteria select such a result or a domain that has no snapshots.
C16_MissingMetricsNotSelected ==
    \A task_id \in DOMAIN fake_tasks_db :
        LET task == fake_tasks_db[task_id]
            lacking(r) ==
                \/ Null \in {r.total_snapshots, r.years_covered,
                             r.avg_interval_days, r.max_gap_days}
                \/ r.total_snapshots = 0
            report == get_task_report(task_id, "long-live").response
            exported(filter_type) == download_report(task_id, "excel", filter_type).response
        IN  task.status = COMPLETED =>
              /\ report.code # 500
              /\ \A k \in 1..Len(report.results) : ~lacking(report.results[k])
              /\ exported("long-live").code # 500
              /\ exported("").code # 500
              /\ \A k \in 1..Len(exported("").results) :
                    lacking(task.results[k]) => exported("").results[k].long_live = "no"
              /\ \A criteria \in FilterCriteriaInputs, k \in 1..Len(task.results) :
                    lacking(task.results[k]) => ~apply_filter_criteria(task.results[k], criteria)

\* C15: the results of a FILTERED report created with criteria are exactly the
\* results of its task with total_snapshots >= min_snapshots, years_covered >=
\* min_years, a defined avg_interval_days < max_avg_interval, a defined
\* max_gap_days < max_gap and timemap_count >= min_timemap: the two upper
\* bounds are strict, and a metric that is 0 or equal to a threshold is
\* compared like any other value.
C15_CriteriaFilterAsSpecified ==
    \A report_id \in DOMAIN fake_reports_db :
        LET report == fake_reports_db[report_id]
            criteria == report.filter_criteria
            include(r) ==
                /\ r.total_snapshots # Null /\ r.total_snapshots >= criteria.min_snapshots
                /\ r.years_covered # Null /\ r.years_covered >= criteria.min_years
                /\ r.avg_interval_days # Null
                /\ r.avg_interval_days < criteria.max_avg_interval * 100
                /\ r.max_gap_days # Null /\ r.max_gap_days < criteria.max_gap
                /\ r.timemap_count # Null /\ r.timemap_count >= criteria.min_timemap
        IN  (report.report_type = FILTERED /\ criteria # NoCriteria) =>
               report.results =
                   SelectSeq(fake_tasks_db[report.task_id].results, LAMBDA r : include(r))

\* C17: under the default criteria the filter includes a result of the
\* service with total_snapshots = 6, years_covered = 4, avg_interval_days = 50
\* and max_gap_days = 100, and excludes it when max_gap_days is 200.  The
\* result is taken as the service builds it from six snapshots, with the
\* three other metrics of the example; a stored report filtered by the
\* defaults also holds every six-snapshot result of its task that is inside
\* the four metric thresholds.
C17_DefaultsIncludeExample ==
    \A report_id \in DOMAIN fake_reports_db :
        LET report == fake_reports_db[report_id]
            results == fake_tasks_db[report.task_id].results
            example(r) == [r EXCEPT !.years_covered = 4, !.avg_interval_days = 50 * 100,
                                    !.max_gap_days = 100]
        IN  (report.report_type = FILTERED /\ report.filter_criteria = DefaultCriteria) =>
              \A k \in 1..Len(results) :
                 results[k].total_snapshots = 6 =>
                    /\ apply_filter_criteria(example(results[k]), DefaultCriteria)
                    /\ ~apply_filter_criteria([example(results[k]) EXCEPT !.max_gap_days = 200],
                                              DefaultCriteria)
                    /\ (/\ results[k].years_covered >= 3
                        /\ results[k].avg_interval_days < 90 * 100
                        /\ results[k].max_gap_days < 180)
                          => \E j \in 1..Len(report.results) : report.results[j] = results[k]

\* C18: a stored report is a snapshot copy.  Its domains_count is the length
\* of its results; no step (of a worker, a submission, the creation or the
\* deletion of another report) changes a report that stays stored; a new
\* report gets an id no report had, and holds results of its task as they are
\* at that moment.
C18_ReportIsSnapshot ==
    /\ [](\A r \in DOMAIN fake_reports_db :
             fake_reports_db[r].domains_count = Len(fake_reports_db[r].results))
    /\ [][\A r \in DOMAIN fake_reports_db :
             r \in DOMAIN fake_reports_db' => fake_reports_db'[r] = fake_reports_db[r]]_vars
    /\ [][\A r \in DOMAIN fake_reports_db' \ DOMAIN fake_reports_db :
             LET report == fake_reports_db'[r] IN
             /\ r > reports_created
             /\ report.task_id \in DOMAIN fake_tasks_db
             /\ fake_tasks_db[report.task_id].status = COMPLETED
             /\ \A k \in 1..Len(report.results) :
                   \E j \in 1..Len(fake_tasks_db[report.task_id].results) :
                       report.results[k] = fake_tasks_db[report.task_id].results[j]]_vars

\* the first report is still stored, with the result of its task, after a
\* second report was created and deleted and while another task, submitted
\* since, is being processed
C18_ReportOutlivesLaterWork ==
    /\ reports_created = 2
    /\ DOMAIN fake_reports_db = {1}
    /\ fake_reports_db[1].domains_count = 1
    /\ fake_reports_db[1].results = fake_tasks_db[fake_reports_db[1].task_id].results
    /\ \E t \in DOMAIN fake_tasks_db :
          /\ t # fake_reports_db[1].task_id
          /\ fake_tasks_db[t].status = PROCESSING
          /\ Len(worker[t].results) = 1

\* the summary a worker holds when the history fetch has just returned: on
\* its way to the LLM, or in the result it has just appended
DeliveredSummary(w) ==
    IF w.pc = "llm" THEN w.wayback_history
    ELSE w.results[Len(w.results)].wayback_history_summary

\* C19: when the archive returns an empty snapshot list for a domain, the
\* summary has has_snapshot = false, total_snapshots = 0, undefined
\* avg_interval_days and max_gap_days, is_good = false and recommended = false.
C19_EmptyListSummary ==
    [][\A t \in DOMAIN worker :
          (/\ worker[t].pc = "cdx"
           /\ worker[t].cdx = CdxAnswer("", <<>>)
           /\ worker'[t].pc # "cdx"
           /\ DeliveredSummary(worker'[t]).error # ErrFailedToProcess)
             => LET summary == DeliveredSummary(worker'[t]) IN
                /\ summary.has_snapshot = FALSE
                /\ summary.total_snapshots = 0
                /\ summary.avg_interval_days = Null
                /\ summary.max_gap_days = Null
                /\ summary.is_good = FALSE
                /\ summary.recommended = FALSE]_vars

\* C20: for a domain with exactly one well-formed snapshot the summary has
\* total_snapshots = 1, undefined avg_interval_days and max_gap_days, and
\* years_covered = 1.
C20_SingleSnapshotSummary ==
    [][\A t \in DOMAIN worker :
          (/\ worker[t].pc = "cdx"
           /\ worker[t].cdx.error = ""
           /\ Len(worker[t].cdx.snapshots) = 1
           /\ WellFormed(worker[t].cdx.snapshots[1].timestamp)
           /\ worker'[t].pc # "cdx"
           /\ DeliveredSummary(worker'[t]).error # ErrFailedToProcess)
             => LET summary == DeliveredSummary(worker'[t]) IN
                /\ summary.error = ""
                /\ summary.total_snapshots = 1
                /\ summary.avg_interval_days = Null
                /\ summary.max_gap_days = Null
                /\ summary.years_covered = 1]_vars

\* the history of a domain with one capture has been fetched and the worker
\* now waits for the LLM; the domain before it had six captures
C20_SingleCaptureFetched ==
    \E t \in DOMAIN worker :
        /\ worker[t].pc = "llm"
        /\ worker[t].wayback_history.total_snapshots = 1
        /\ worker[t].wayback_history.first_snapshot = IsoOrRaw(SingleSnapshot[1].timestamp)
        /\ Len(worker[t].results) = 1
        /\ worker[t].results[1].total_snapshots = 6

\* C21 (as amended): for any snapshot list with at least two well-formed
\* timestamps, in any order, max_gap_days is the largest whole-day difference
\* between consecutive timestamps of the sorted list (every timestamp but the
\* last has a later one within max_gap_days, and two consecutive ones are
\* max_gap_days apart) and avg_interval_days is the mean of those differences
\* (to two decimals; stated through the span of the list, which is their sum
\* when the timestamps share the hour of the day or are at most two); the
\* timestamps 2020-01-01, 2020-01-11, 2020-04-10 give avg = 50.0, max_gap =
\* 90, years_covered = 1.  avg_interval_days is in hundredths of a day.
C21_GapsOfSortedTimestamps ==
    [][\A t \in DOMAIN worker :
          LET snapshots == worker[t].cdx.snapshots
              wf == {k \in 1..Len(snapshots) : WellFormed(snapshots[k].timestamp)}
              n == Cardinality(wf)
              times == {Strptime(snapshots[k].timestamp) : k \in wf}
              first == CHOOSE a \in times : \A b \in times : a <= b
              last == CHOOSE a \in times : \A b \in times : a >= b
              whole == \/ Cardinality(times) <= 2
                       \/ \A a \in times : a % 24 = first % 24
              summary == DeliveredSummary(worker'[t])
              gap == summary.max_gap_days
              avg == summary.avg_interval_days
          IN  (/\ worker[t].pc = "cdx"
               /\ worker[t].cdx.error = ""
               /\ n >= 2
               /\ worker'[t].pc # "cdx"
               /\ summary.error # ErrFailedToProcess)
                 => /\ \A a \in times \ {last} :
                          \E b \in times : a < b /\ (b - a) \div 24 <= gap
                    /\ IF Cardinality(times) = 1 THEN gap = 0
                       ELSE \E a, b \in times :
                               /\ a < b /\ (b - a) \div 24 = gap
                               /\ \A c \in times : ~(a < c /\ c < b)
                    /\ whole =>
                          /\ 2 * (avg * (n - 1) - 100 * ((last - first) \div 24)) <= n - 1
                          /\ 2 * (100 * ((last - first) \div 24) - avg * (n - 1)) <= n - 1
                    /\ {snapshots[k].timestamp : k \in 1..Len(snapshots)}
                          = {<<2020, 1, 1, 0>>, <<2020, 1, 11, 0>>, <<2020, 4, 10, 0>>}
                       => /\ avg = 50 * 100
                          /\ gap = 90
                          /\ summary.years_covered = 1]_vars

\* C21 (as stated): the same, with avg = 55.0 for the timestamps 2020-01-01,
\* 2020-01-11, 2020-04-10.
C21_ExampleAverage55 ==
    [][\A t \in DOMAIN worker :
          LET snapshots == worker[t].cdx.snapshots
              wf == {k \in 1..Len(snapshots) : WellFormed(snapshots[k].timestamp)}
              n == Cardinality(wf)
              times == {Strptime(snapshots[k].timestamp) : k \in wf}
              first == CHOOSE a \in times : \A b \in times : a <= b
              last == CHOOSE a \in times : \A b \in times : a >= b
              whole == \/ Cardinality(times) <= 2
                       \/ \A a \in times : a % 24 = first % 24
              summary == DeliveredSummary(worker'[t])
              gap == summary.max_gap_days
              avg == summary.avg_interval_days
          IN  (/\ worker[t].pc = "cdx"
               /\ worker[t].cdx.error = ""
               /\ n >= 2
               /\ worker'[t].pc # "cdx"
               /\ summary.error # ErrFailedToProcess)
                 => /\ \A a \in times \ {last} :
                          \E b \in times : a < b /\ (b - a) \div 24 <= gap
                    /\ IF Cardinality(times) = 1 THEN gap = 0
                       ELSE \E a, b \in times :
                               /\ a < b /\ (b - a) \div 24 = gap
                               /\ \A c \in times : ~(a < c /\ c < b)
                    /\ whole =>
                          /\ 2 * (avg * (n - 1) - 100 * ((last - first) \div 24)) <= n - 1
                          /\ 2 * (100 * ((last - first) \div 24) - avg * (n - 1)) <= n - 1
                    /\ {snapshots[k].timestamp : k \in 1..Len(snapshots)}
                          = {<<2020, 1, 1, 0>>, <<2020, 1, 11, 0>>, <<2020, 4, 10, 0>>}
                       => /\ avg = 55 * 100
                          /\ gap = 90
                          /\ summary.years_covered = 1]_vars

\* the history of the three captures of the example, listed in no order, has
\* been fetched: the gaps of 10 and 90 days give the average 50.0
C21_UnorderedExampleFetched ==
    \E t \in DOMAIN worker :
        /\ worker[t].pc = "llm"
        /\ worker[t].wayback_history.first_snapshot = IsoOrRaw(<<2020, 1, 11, 0>>)
        /\ worker[t].wayback_history.total_snapshots = 3
        /\ worker[t].wayback_history.max_gap_days = 90
        /\ worker[t].wayback_history.avg_interval_days = 50 * 100

\* C22: is_good holds exactly when total_snapshots >= 1 and max_gap_days is
\* undefined or below 365: a summary with total_snapshots = 1 and max_gap_days
\* undefined has is_good = true.
C22_IsGoodWithUndefinedGap ==
    [][\A t \in DOMAIN worker :
          (/\ worker[t].pc = "cdx"
           /\ worker'[t].pc # "cdx"
           /\ DeliveredSummary(worker'[t]).error # ErrFailedToProcess)
             => LET summary == DeliveredSummary(worker'[t]) IN
                /\ summary.is_good
                      = (/\ summary.total_snapshots >= 1
                         /\ \/ summary.max_gap_days = Null
                            \/ summary.max_gap_days < 365)
                /\ (summary.total_snapshots = 1 /\ summary.max_gap_days = Null)
                      => summary.is_good]_vars

\* C23: recommended is true exactly when total_snapshots >= 200 and
\* avg_interval_days is defined and below 30: 250 snapshots every 20 days give
\* true, 250 snapshots every 40 days give false, fewer than 200 snapshots or
\* an undefined average give false.  avg_interval_days is in hundredths.
C23_RecommendedRule ==
    [][\A t \in DOMAIN worker :
          (/\ worker[t].pc = "cdx"
           /\ worker'[t].pc # "cdx"
           /\ DeliveredSummary(worker'[t]).error # ErrFailedToProcess)
             => LET summary == DeliveredSummary(worker'[t])
                    snapshots == worker[t].cdx.snapshots
                IN
                /\ summary.recommended
                      = (/\ summary.total_snapshots >= 200
                         /\ summary.avg_interval_days # Null
                         /\ summary.avg_interval_days < 30 * 100)
                /\ (summary.total_snapshots = 250 /\ summary.avg_interval_days = 20 * 100)
                      => summary.recommended
                /\ (summary.total_snapshots = 250 /\ summary.avg_interval_days = 40 * 100)
                      => ~summary.recommended
                /\ (worker[t].cdx.error = "" /\ Len(snapshots) < 200)
                      => ~summary.recommended
                /\ (worker[t].cdx.error = "" /\ Len(snapshots) = 200
                       /\ \A k \in 1..Len(snapshots) :
                             snapshots[k].timestamp = DateOfDay(366 + 30 * (k - 1)))
                      => ~summary.recommended]_vars

\* the history of a domain captured 250 times, every 20 days, has been
\* fetched and the summary recommends it
C23_FrequentlyCapturedFetched ==
    \E t \in DOMAIN worker :
        /\ worker[t].pc = "llm"
        /\ worker[t].wayback_history.total_snapshots = 250
        /\ worker[t].wayback_history.avg_interval_days = 20 * 100
        /\ worker[t].wayback_history.recommended

\* C24: every summary the analyzer produces, for any snapshot list (with
\* malformed or duplicate timestamps too), has years_covered <= total_snapshots
\* and unique_versions <= total_snapshots, avg_interval_days and max_gap_days
\* both undefined when total_snapshots < 2 and both defined when
\* total_snapshots >= 2.
C24_SummaryInvariant ==
    [][\A t \in DOMAIN worker :
          (/\ worker[t].pc = "cdx"
           /\ worker'[t].pc # "cdx"
           /\ DeliveredSummary(worker'[t]).error # ErrFailedToProcess)
             => LET summary == DeliveredSummary(worker'[t]) IN
                /\ summary.years_covered # Null
                      => summary.years_covered <= summary.total_snapshots
                /\ summary.unique_versions # Null
                      => summary.unique_versions <= summary.total_snapshots
                /\ summary.total_snapshots < 2
                      => /\ summary.avg_interval_days = Null
                         /\ summary.max_gap_days = Null
                /\ summary.total_snapshots >= 2
                      => /\ summary.avg_interval_days # Null
                         /\ summary.max_gap_days # Null]_vars

\* C25: snapshots with malformed timestamps are skipped and do not fail the
\* computation: the summary has no error, total_snapshots counts the
\* well-formed snapshots only, the metrics are those of the list without the
\* malformed snapshots, and a list of malformed snapshots only gives
\* has_snapshot = false and total_snapshots = 0.
C25_MalformedSkipped ==
    [][\A t \in DOMAIN worker :
          LET snapshots == worker[t].cdx.snapshots
              malformed == {k \in 1..Len(snapshots) : ~WellFormed(snapshots[k].timestamp)}
              WellFormedOnly(snapshot) == WellFormed(snapshot.timestamp)
              kept == get_domain_history_summary(
                          TRUE, CdxAnswer("", SelectSeq(snapshots, WellFormedOnly)))
              summary == DeliveredSummary(worker'[t])
          IN  (/\ worker[t].pc = "cdx"
               /\ worker[t].cdx.error = ""
               /\ malformed # {}
               /\ worker'[t].pc # "cdx"
               /\ summary.error # ErrFailedToProcess)
                 => /\ summary.error = ""
                    /\ summary.total_snapshots = Len(snapshots) - Cardinality(malformed)
                    /\ summary.avg_interval_days = kept.avg_interval_days
                    /\ summary.max_gap_days = kept.max_gap_days
                    /\ summary.unique_versions = kept.unique_versions
                    /\ summary.is_good = kept.is_good
                    /\ summary.recommended = kept.recommended
                    /\ Cardinality(malformed) < Len(snapshots)
                          => summary.years_covered = kept.years_covered
                    /\ Cardinality(malformed) = Len(snapshots)
                          => /\ summary.has_snapshot = FALSE
                             /\ summary.total_snapshots = 0]_vars

\* C26: for a non-empty snapshot list, in whatever order the archive returned
\* the records, first_snapshot is the minimum and last_snapshot the maximum of
\* the snapshot timestamps, so first_snapshot <= last_snapshot.
C26_FirstIsMinLastIsMax ==
    [][\A t \in DOMAIN worker :
          LET snapshots == worker[t].cdx.snapshots
              stamps == {snapshots[k].timestamp : k \in 1..Len(snapshots)}
              summary == DeliveredSummary(worker'[t])
          IN  (/\ worker[t].pc = "cdx"
               /\ worker[t].cdx.error = ""
               /\ Len(snapshots) > 0
               /\ \A ts \in stamps : WellFormed(ts)
               /\ worker'[t].pc # "cdx"
               /\ summary.error # ErrFailedToProcess)
                 => /\ summary.first_snapshot.ts \in stamps
                    /\ summary.last_snapshot.ts \in stamps
                    /\ \A ts \in stamps :
                          /\ Strptime(summary.first_snapshot.ts) <= Strptime(ts)
                          /\ Strptime(ts) <= Strptime(summary.last_snapshot.ts)]_vars

\* C27: unique_versions is the number of distinct content fingerprints of the
\* snapshots of the domain; when the snapshots carry no fingerprint it is
\* undefined, never 0.
C27_UniqueVersionsUnknownWithoutDigest ==
    [][\A t \in DOMAIN worker :
          LET snapshots == worker[t].cdx.snapshots
              digests == {snapshots[k].digest :
                             k \in {j \in 1..Len(snapshots) :
                                       /\ WellFormed(snapshots[j].timestamp)
                                       /\ snapshots[j].digest # Null}}
              summary == DeliveredSummary(worker'[t])
          IN  (/\ worker[t].pc = "cdx"
               /\ worker[t].cdx.error = ""
               /\ \E k \in 1..Len(snapshots) : WellFormed(snapshots[k].timestamp)
               /\ worker'[t].pc # "cdx"
               /\ summary.error # ErrFailedToProcess)
                 => /\ digests # {} => summary.unique_versions = Cardinality(digests)
                    /\ digests = {} => summary.unique_versions = Null
                    /\ summary.unique_versions # 0]_vars

\* C28: every failure of get_domain_history_summary comes back as a summary
\* whose error field is set: "no records found", "service unavailable" (the
\* archive call failed) and "unexpected error" are each reported as a failure,
\* and the error field tells them from one another and from a successful
\* fetch, whose error field is empty.
C28_FailuresReportedAndDistinct ==
    [][\A t \in DOMAIN worker :
          LET Outcome(cdx) == IF cdx.error = ErrExecutor THEN "unexpected error"
                              ELSE IF cdx.error # "" THEN "service unavailable"
                              ELSE IF cdx.snapshots = <<>> THEN "no records found"
                              ELSE "fetched"
              summary == DeliveredSummary(worker'[t])
          IN  (/\ worker[t].pc = "cdx"
               /\ worker'[t].pc # "cdx"
               /\ summary.error # ErrFailedToProcess)
                 => /\ (summary.error = "") = (Outcome(worker[t].cdx) = "fetched")
                    /\ \A other \in AnalyzerAnswers :
                          Outcome(other) # Outcome(worker[t].cdx)
                             => HistorySummaries[other].error # summary.error]_vars

\* C29: the read operations leave every stored task unchanged, results
\* included: in every state a step leads to, getStatus, getReport and download
\* (with or without the long-live filter) hand back the store as they found
\* it, and no step but a worker's
\* (a poll of a live stream, a report operation) changes a task; hence
\* getStatus answers the same status, message and updated_at as long as no
\* worker steps, and after a filtered getReport the unfiltered one still
\* returns all the results.
C29_ReadsLeaveTasksUnchanged ==
    [][/\ (\A task_id \in RequestIds :
             /\ get_task_status_http(task_id).fake_tasks_db = fake_tasks_db
             /\ \A filter_type \in FilterTypes :
                   /\ get_task_report(task_id, filter_type).fake_tasks_db = fake_tasks_db
                   /\ \A format \in RequestFormats :
                         download_report(task_id, format, filter_type).fake_tasks_db
                            = fake_tasks_db
             /\ (task_id \in DOMAIN fake_tasks_db
                   /\ get_task_report(task_id, "long-live").response.code = 200)
                   => LET after == get_task_report(task_id, "long-live").fake_tasks_db
                      IN  /\ after[task_id].results = fake_tasks_db[task_id].results
                          /\ get_task_report(task_id, "").response.results
                                = after[task_id].results)'
       /\ worker' = worker =>
             /\ fake_tasks_db' = fake_tasks_db
             /\ \A task_id \in DOMAIN fake_tasks_db :
                   /\ get_task_status_http(task_id)'.response
                         = get_task_status_http(task_id).response
                   /\ get_task_report(task_id, "")'.response
                         = get_task_report(task_id, "").response]_vars

\* a completed task of which the long-live filter keeps one result out of two
\* has been read through a filtered report, and a live stream has reported it
C29_FilteredReadOfCompletedTask ==
    \E task_id \in DOMAIN fake_tasks_db :
        /\ fake_tasks_db[task_id].status = COMPLETED
        /\ Len(fake_tasks_db[task_id].results) = 2
        /\ get_task_report(task_id, "long-live").response.code = 200
        /\ Len(get_task_report(task_id, "long-live").response.results) = 1
        /\ \E s \in DOMAIN streams :
              /\ streams[s].task_id = task_id
              /\ streams[s].pc = "closed"
              /\ Len(streams[s].emitted) > 0

\* C30: within one task the worker's steps are strictly sequential.  The
\* start (PENDING -> PROCESSING, "processing started") is the first write
\* after the creation of the task, so it happens once and before any progress
\* update; a progress update is written when the results of the domains
\* before i are in and no domain is being processed, it names domain i of n
\* and is the i-th one; the processing of a domain begins under the progress
\* message of that domain and ends with its result appended after those of
\* the domains before it, one domain at a time; the task is finished only
\* when all n domains have been processed.  updated_at counts the writes of
\* the task (each write reads a later clock).
C30_WorkerStepsSequential ==
    [][\A t \in DOMAIN worker \cap DOMAIN fake_tasks_db :
          LET task == fake_tasks_db[t]
              after == fake_tasks_db'[t]
              w == worker[t]
              domains == task.domains_submitted
              n == Len(domains)
              done == Len(w.results)
              Processing(pc) == pc \in {"sleep", "cdx", "llm"}
          IN  /\ (task.status = PENDING /\ after.status # PENDING)
                    => /\ w.pc = "queued"
                       /\ after.status = PROCESSING
                       /\ after.message = MsgStarted
                       /\ after.updated_at = task.created_at + 1
              /\ (after.message # task.message /\ after.message.i > 0)
                    => /\ w.pc = "progress"
                       /\ done < n
                       /\ after.message = MsgProgress(done + 1, n, domains[done + 1])
                       /\ after.updated_at = task.created_at + 1 + (done + 1)
                       /\ after.status = PROCESSING
                       /\ task.status = PROCESSING
                       /\ Processing(worker'[t].pc)
              /\ (Processing(worker'[t].pc) /\ ~Processing(w.pc))
                    => /\ after.message # task.message
                       /\ after.message.i = done + 1
              /\ Processing(w.pc)
                    => /\ task.message = MsgProgress(done + 1, n, domains[done + 1])
                       /\ task.updated_at = task.created_at + 1 + (done + 1)
                       /\ after = task
                       /\ \/ /\ Processing(worker'[t].pc)
                             /\ worker'[t].results = w.results
                          \/ /\ ~Processing(worker'[t].pc)
                             /\ Len(worker'[t].results) = done + 1
                             /\ SubSeq(worker'[t].results, 1, done) = w.results
                             /\ worker'[t].results[done + 1].domain_name = domains[done + 1]
              /\ ~Processing(w.pc) => worker'[t].results = w.results \/ w.pc = "services"
              /\ (after.status = COMPLETED /\ task.status # COMPLETED)
                    => /\ w.pc = "finish"
                       /\ done = n
                       /\ \A i \in 1..n : w.results[i].domain_name = domains[i]]_vars

\* a task of two domains has been finished: started, two progress updates,
\* completed, four writes in all
C30_TwoDomainsFinished ==
    \E t \in DOMAIN fake_tasks_db :
        /\ fake_tasks_db[t].status = COMPLETED
        /\ fake_tasks_db[t].message = MsgCompleted
        /\ Len(fake_tasks_db[t].domains_submitted) = 2
        /\ Len(fake_tasks_db[t].results) = 2
        /\ fake_tasks_db[t].updated_at = fake_tasks_db[t].created_at + 4

\* C31: the stored results of a task are append-only and grow with the work:
\* each time the processing of a domain ends, the result of that domain is
\* appended to the stored results and the status stays as it is; while the
\* task is PROCESSING the stored results are those of the domains processed
\* so far; the stored results are never longer than the submitted list.
C31_ResultsGrowIncrementally ==
    [][\A t \in DOMAIN worker \cap DOMAIN fake_tasks_db :
          LET task == fake_tasks_db[t]
              after == fake_tasks_db'[t]
              done == Len(worker[t].results)
          IN  /\ Len(after.results) <= Len(after.domains_submitted)
              /\ Len(task.results) <= Len(after.results)
              /\ SubSeq(after.results, 1, Len(task.results)) = task.results
              /\ Len(worker'[t].results) = done + 1
                    => /\ after.results = Append(task.results, worker'[t].results[done + 1])
                       /\ after.status = task.status
              /\ after.status = PROCESSING /\ worker'[t].pc \notin {"services", "aborted"}
                    => after.results = worker'[t].results]_vars

\* C32: the updated_at of a task never decreases, is at least created_at, and
\* is refreshed by every mutation of the task: no step changes the status,
\* the message or the results and leaves updated_at as it was.
C32_UpdatedAtRefreshed ==
    [][\A t \in DOMAIN fake_tasks_db' :
          LET after == fake_tasks_db'[t]
          IN  /\ after.updated_at >= after.created_at
              /\ t \in DOMAIN fake_tasks_db
                    => LET task == fake_tasks_db[t]
                       IN  /\ after.updated_at >= task.updated_at
                           /\ after.created_at = task.created_at
                           /\ (\/ after.status # task.status
                               \/ after.message # task.message
                               \/ after.results # task.results)
                                 => after.updated_at # task.updated_at]_vars

\* C33: with several tasks in progress, under any interleaving, the record of
\* a task is changed only by the worker of that task: a step of the worker of
\* task A leaves the status, message, updated_at and results of every other
\* task as they were; the results of a task are those of its own submitted
\* domains; no task is ever removed from the store.
C33_TasksIsolated ==
    [][/\ DOMAIN fake_tasks_db \subseteq DOMAIN fake_tasks_db'
       /\ \A t \in DOMAIN fake_tasks_db :
             /\ fake_tasks_db'[t] # fake_tasks_db[t]
                   => /\ t \in DOMAIN worker
                      /\ worker'[t] # worker[t]
             /\ (t \in DOMAIN worker /\ worker'[t] # worker[t])
                   => \A u \in DOMAIN fake_tasks_db \ {t} :
                         /\ fake_tasks_db'[u] = fake_tasks_db[u]
                         /\ worker'[u] = worker[u]
             /\ LET after == fake_tasks_db'[t]
                IN  /\ Len(after.results) <= Len(after.domains_submitted)
                    /\ \A k \in 1..Len(after.results) :
                          after.results[k].domain_name = after.domains_submitted[k]]_vars

\* two tasks are in progress at once, on different domains: the worker of
\* the first waits for the archive, the second one is finished
C33_TwoTasksInterleaved ==
    /\ DOMAIN fake_tasks_db = {1, 2}
    /\ fake_tasks_db[1].status = PROCESSING
    /\ worker[1].pc = "cdx"
    /\ fake_tasks_db[2].status = COMPLETED
    /\ Len(fake_tasks_db[2].results) > 0
    /\ fake_tasks_db[1].domains_submitted # fake_tasks_db[2].domains_submitted

\* C34: whenever a reader can run (no worker is between two awaits), what it
\* reads is consistent: a task that is COMPLETED has its full list of results
\* stored, and the status of a task goes with the message of the worker step
\* that wrote it (queued with PENDING, started or a progress message with
\* PROCESSING, completed with COMPLETED); so it is for what getStatus and
\* getReport answer and for every snapshot a live stream has emitted.
C34_ReadersSeeConsistentTask ==
    LET Paired(status, message) ==
            \/ status = PENDING /\ message = MsgQueued
            \/ status = PROCESSING /\ (message = MsgStarted \/ message.i > 0)
            \/ status = COMPLETED /\ message = MsgCompleted
    IN  LoopFree =>
          /\ \A t \in DOMAIN fake_tasks_db :
                LET task == fake_tasks_db[t]
                    status == get_task_status_http(t).response
                    report == get_task_report(t, "").response
                IN  /\ Paired(task.status, task.message)
                    /\ task.status = COMPLETED
                          => Len(task.results) = Len(task.domains_submitted)
                    /\ Paired(status.status, status.message)
                    /\ report.code = 200
                          => /\ Paired(report.status, report.message)
                             /\ Len(report.results) = Len(task.domains_submitted)
          /\ \A s \in DOMAIN streams :
                \A k \in 1..Len(streams[s].emitted) :
                   streams[s].emitted[k].event # "error"
                      => Paired(streams[s].emitted[k].data.status,
                                streams[s].emitted[k].data.message)

\* C35: the stored results of a task are empty unless the task is COMPLETED:
\* the worker gathers the results in a list of its own and the stored results
\* change only in the step that sets COMPLETED, to that list; partial results
\* are never in the store.
C35_ResultsPublishedAtCompletion ==
    [][\A t \in DOMAIN fake_tasks_db' :
          LET after == fake_tasks_db'[t]
          IN  /\ after.status # COMPLETED => after.results = <<>>
              /\ after.results # <<>>
                    => Len(after.results) = Len(after.domains_submitted)
              /\ (t \in DOMAIN fake_tasks_db /\ after.results # fake_tasks_db[t].results)
                    => /\ fake_tasks_db[t].status = PROCESSING
                       /\ after.status = COMPLETED
                       /\ after.results = worker[t].results]_vars

\* the worker of a task of two domains holds the result of the first one
\* while the task is PROCESSING, its stored results empty
C35_PartialResultsHeldByWorker ==
    \E t \in DOMAIN worker \cap DOMAIN fake_tasks_db :
        /\ fake_tasks_db[t].status = PROCESSING
        /\ Len(fake_tasks_db[t].domains_submitted) = 2
        /\ Len(worker[t].results) = 1
        /\ worker[t].pc = "cdx"
        /\ fake_tasks_db[t].results = <<>>

\* C36: on one live stream the statuses emitted never go back in the order
\* PENDING < PROCESSING < {COMPLETED, FAILED}; the first emission is the state
\* of the task at the first poll; every emitted snapshot is the state the
\* stored task had at the poll that read it (an event sent after the yield
\* repeats the snapshot of its poll); and the snapshot tagged complete has
\* the status, message and updated_at of the stored task, which is terminal.
C36_StreamFollowsTask ==
    [][\A s \in DOMAIN streams :
          LET st == streams[s]
              emitted == st.emitted
              sent == Len(emitted)
              now == StatusJson(fake_tasks_db[st.task_id])
              Rank(status) == IF status = PENDING THEN 0
                              ELSE IF status = PROCESSING THEN 1 ELSE 2
          IN  Len(streams'[s].emitted) > sent
                => LET event == streams'[s].emitted[sent + 1]
                   IN  /\ Len(streams'[s].emitted) = sent + 1
                       /\ SubSeq(streams'[s].emitted, 1, sent) = emitted
                       /\ event.event # "error"
                       /\ sent > 0 => Rank(emitted[sent].data.status) <= Rank(event.data.status)
                       /\ sent = 0 => event.data = now /\ st.pc = "poll"
                       /\ st.pc = "poll" => event.data = now
                       /\ st.pc = "yielded" => sent > 0 /\ event.data = emitted[sent].data
                       /\ event.event = "complete"
                             => /\ Terminal(event.data.status)
                                /\ event.data = StatusJson(fake_tasks_db'[st.task_id])]_vars
\* ---------------------------------------------------------- specifications
Submit == \E domains \in SeqsUpTo(DomainNames, MaxDomains) : create_analysis_task(domains)

\* the first task of a behaviour
SubmitFirst ==
    \E domains \in SeqsUpTo(DomainNames, MaxDomains) :
        fake_tasks_db = <<>> /\ create_analysis_task(domains)

Workers == \E t \in TaskIds : Worker(t)

Faults == \E t \in TaskIds : WorkerFault(t)

Streams == \E s \in StreamIds : StreamPoll(s) \/ StreamResume(s) \/ ClientDisconnect(s)

\* tasks and their workers, the read endpoints of tasks, and the reports
Next ==
    \/ Submit
    \/ Workers
    \/ Faults
    \/ GetTaskStatus
    \/ GetTaskReport
    \/ DownloadReport
    \/ CreateReport
    \/ ListReports
    \/ GetReport
    \/ DeleteReport

Spec == Init /\ [][Next]_vars

\* one task, every endpoint, the live streams
ApiNext ==
    \/ SubmitFirst
    \/ Workers
    \/ Faults
    \/ GetTaskStatus
    \/ GetTaskReport
    \/ DownloadReport
    \/ CreateReport
    \/ ListReports
    \/ GetReport
    \/ DeleteReport
    \/ StreamTaskStatus
    \/ Streams

ApiSpec == Init /\ [][ApiNext]_vars

\* one task and its live streams
StreamNext ==
    \/ SubmitFirst
    \/ Workers
    \/ Faults
    \/ StreamTaskStatus
    \/ Streams

StreamSpec == Init /\ [][StreamNext]_vars

\* tasks and their workers alone
CoreNext ==
    \/ Submit
    \/ Workers
    \/ Faults

\* a worker that can take a step is resumed by the event loop
FairSpec == Init /\ [][CoreNext]_vars /\ \A t \in TaskIds : WF_vars(Worker(t))

\* the event loop also resumes every generator that can take a step
FairStreamSpec ==
    /\ StreamSpec
    /\ \A t \in TaskIds : WF_vars(Worker(t))
    /\ \A s \in StreamIds : WF_vars(StreamPoll(s) \/ StreamResume(s))

\* the event loop resumes a worker that can go on by itself and the timers
\* the code sets fire, but the archive and the LLM need not answer
SilentSpec ==
    /\ Init /\ [][CoreNext]_vars
    /\ \A t \in TaskIds : WF_vars(WorkerLocal(t)) /\ WF_vars(WorkerThematicTimeout(t))

\* one task run against FilterAnswers, its reports and exports with and
\* without the long-live filter, and the reports filtered by criteria
FilterNext ==
    \/ SubmitFirst
    \/ \E t \in TaskIds : FilterWorker(t)
    \/ Faults
    \/ GetTaskReport
    \/ DownloadReport
    \/ CreateReportFrom(FilterRequests)

FilterSpec == Init /\ [][FilterNext]_vars

\* tasks and their workers, and the reports made and deleted meanwhile
ReportNext ==
    \/ Submit
    \/ Workers
    \/ CreateReportUpTo(ReportRequests, MaxCopies)
    \/ DeleteReport

ReportSpec == Init /\ [][ReportNext]_vars

\* one task whose domains are analysed against AnalyzerAnswers
AnalyzerNext ==
    \/ SubmitFirst
    \/ \E t \in TaskIds : AnalyzerWorker(t)

AnalyzerSpec == Init /\ [][AnalyzerNext]_vars

\* one task, its worker, the read endpoints and the live streams
ReadNext ==
    \/ SubmitFirst
    \/ Workers
    \/ GetTaskStatus
    \/ GetTaskReport
    \/ DownloadReport
    \/ StreamTaskStatus
    \/ Streams

ReadSpec == Init /\ [][ReadNext]_vars
====
